---- MODULE Spec2Model ----
(***************************************************************************)
(* ClusterSummaryReconciler: the reference index (ReferenceMap /           *)
(* ClusterSummaryMap guarded by Mux), the per-feature deploy / undeploy    *)
(* orchestration and the Reconcile lifecycle with its deferred Close.      *)
(***************************************************************************)
EXTENDS Integers, Sequences, FiniteSets, TLC

(* ------------------------------------------------------------------ *)
(* Bounds of the model                                                 *)
(* ------------------------------------------------------------------ *)

\* external edits (of a spec, of the content of an object) in one behaviour
MaxEdits == 1

\* injected faults (a failing call of a collaborator) in one behaviour
MaxFaults == 2

\* delete requests in one behaviour
MaxDeletes == 1

\* spec edits when every ClusterSummary is reconciled concurrently
MaxConcurrentEdits == 1

\* highest content version a referenced object can take
MaxVersion == 2

(* ------------------------------------------------------------------ *)
(* Program constants                                                   *)
(* ------------------------------------------------------------------ *)

deleteRequeueAfter == 20

normalRequeueAfter == 20

FeatureRole == "Role"

FeatureKyverno == "Kyverno"

FeaturePrometheus == "Prometheus"

Features == {FeatureRole, FeatureKyverno, FeaturePrometheus}

FeatureStatusProvisioning == "Provisioning"

FeatureStatusProvisioned == "Provisioned"

FeatureStatusFailed == "Failed"

WorkloadRole == "WorkloadRole"

ConfigMap == "ConfigMap"

\* a nil error
NoErr == "<nil>"

\* the names of the ClusterSummary instances (the consumers)
ClusterSummaries == {"cs1", "cs2"}

\* referenced objects of the management cluster: <<kind, namespace, name>>
RoleObj == <<WorkloadRole, "", "r1">>

CmObj1 == <<ConfigMap, "ns", "cm1">>

CmObj2 == <<ConfigMap, "ns", "cm2">>

Objects == {RoleObj, CmObj1, CmObj2}

(* ------------------------------------------------------------------ *)
(* Set (controllers.Set): insert, erase, has, items, difference        *)
(* ------------------------------------------------------------------ *)


\* variant: erase empties the Set
erase_all(s, e) == {}

insert(s, e) == s \cup {e}

erase(s, e) == s \ {e}

has(s, e) == e \in s

items(s) == s

\* the elements of s that are not in b
difference(s, b) == s \ b

(* ------------------------------------------------------------------ *)
(* Spec of a ClusterSummary and the references it holds                *)
(* ------------------------------------------------------------------ *)

\* a nil pointer is the empty sequence, a non-nil pointer a sequence of one
Nil == << >>

Ref(obj) == [Namespace |-> obj[2], Name |-> obj[3]]

\* <kind>-<namespace>-<name>, or <kind>-<name> without a namespace
getEntryKey(kind, namespace, name) ==
    IF namespace = "" THEN <<kind, name>> ELSE <<kind, namespace, name>>

EntryOf(obj) == getEntryKey(obj[1], obj[2], obj[3])

Entries == {EntryOf(o) : o \in Objects}

ClusterFeatureSpec(roles, kyverno, prometheus) ==
    [WorkloadRoleRefs |-> roles, KyvernoConfiguration |-> kyverno,
     PrometheusConfiguration |-> prometheus]

\* ClusterFeatureSpec values the model draws from: nothing declared; roles
\* and kyverno; prometheus alone; all three features
SpecChoices ==
    { ClusterFeatureSpec(<< >>, Nil, Nil),
      ClusterFeatureSpec(<<Ref(RoleObj)>>, <<[PolicyRefs |-> <<Ref(CmObj1)>>]>>, Nil),
      ClusterFeatureSpec(<< >>, Nil, <<[PolicyRefs |-> <<Ref(CmObj1), Ref(CmObj2)>>]>>),
      ClusterFeatureSpec(<<Ref(RoleObj)>>, <<[PolicyRefs |-> <<Ref(CmObj1)>>]>>,
                         <<[PolicyRefs |-> <<Ref(CmObj1), Ref(CmObj2)>>]>>) }

SeqRange(s) == {s[i] : i \in 1..Len(s)}

\* variant: the references of the Prometheus configuration are left out
getCurrentReferences_noPrometheus(spec) ==
    {getEntryKey(WorkloadRole, "", r.Name) : r \in SeqRange(spec.WorkloadRoleRefs)}
    \cup (IF spec.KyvernoConfiguration # Nil
          THEN {getEntryKey(ConfigMap, r.Namespace, r.Name) :
                   r \in SeqRange(spec.KyvernoConfiguration[1].PolicyRefs)}
          ELSE {})

getCurrentReferences(spec) ==
    LET roles == {getEntryKey(WorkloadRole, "", r.Name) : r \in SeqRange(spec.WorkloadRoleRefs)}
        kyv   == IF spec.KyvernoConfiguration # Nil
                 THEN {getEntryKey(ConfigMap, r.Namespace, r.Name) :
                          r \in SeqRange(spec.KyvernoConfiguration[1].PolicyRefs)}
                 ELSE {}
        prom  == IF spec.PrometheusConfiguration # Nil
                 THEN {getEntryKey(ConfigMap, r.Namespace, r.Name) :
                          r \in SeqRange(spec.PrometheusConfiguration[1].PolicyRefs)}
                 ELSE {}
    IN  roles \cup kyv \cup prom

(* ------------------------------------------------------------------ *)
(* The reference index: ReferenceMap and ClusterSummaryMap             *)
(* ------------------------------------------------------------------ *)

\* a Go map is a function on the keys it holds; a missing key reads as
\* the empty Set
SetAt(m, k) == IF k \in DOMAIN m THEN m[k] ELSE {}

\* r.ReferenceMap after getReferenceMapForEntry(entry): the key exists
getReferenceMapForEntry(rm, entry) ==
    IF entry \in DOMAIN rm THEN rm ELSE rm @@ (entry :> {})

\* References not referenced anymore by the ClusterSummary
toBeRemovedOf(csm, name, currentReferences) ==
    IF name \in DOMAIN csm THEN difference(csm[name], currentReferences) ELSE {}


\* variant: the ClusterSummary becomes the only consumer of each reference
InsertConsumer_replaces(rm, currentReferences, name) ==
    [e \in (DOMAIN rm) \cup currentReferences |->
        IF e \in currentReferences THEN {name} ELSE rm[e]]

\* the loop adding the ClusterSummary as consumer of each current reference
InsertConsumer(rm, currentReferences, name) ==
    [e \in (DOMAIN rm) \cup currentReferences |->
        IF e \in currentReferences
        THEN insert(getReferenceMapForEntry(rm, e)[e], name)
        ELSE rm[e]]

\* variant: the dropped references are never erased
EraseConsumer_skipped(rm, toBeRemoved, name) == rm

\* the loop removing the ClusterSummary as consumer of each dropped reference
EraseConsumer(rm, toBeRemoved, name) ==
    [e \in (DOMAIN rm) \cup toBeRemoved |->
        IF e \in toBeRemoved
        THEN erase(getReferenceMapForEntry(rm, e)[e], name)
        ELSE rm[e]]

\* variant: the current references are added to the old ones
AssignClusterSummaryMap_merged(csm, name, currentReferences) ==
    [k \in (DOMAIN csm) \cup {name} |->
        IF k = name THEN SetAt(csm, name) \cup currentReferences ELSE csm[k]]


\* variant: the references of the ClusterSummary are not recorded
AssignClusterSummaryMap_skipped(csm, name, currentReferences) == csm

\* r.ClusterSummaryMap[name] = currentReferences
AssignClusterSummaryMap(csm, name, currentReferences) ==
    [k \in (DOMAIN csm) \cup {name} |->
        IF k = name THEN currentReferences ELSE csm[k]]

(* ------------------------------------------------------------------ *)
(* StatusScope mutators on Status.FeatureSummaries                     *)
(* ------------------------------------------------------------------ *)

\* index of the first summary of featureID, 0 when there is none
IndexOfFeature(fs, featureID) ==
    IF \E i \in 1..Len(fs) : fs[i].FeatureID = featureID
    THEN CHOOSE i \in 1..Len(fs) :
            /\ fs[i].FeatureID = featureID
            /\ \A j \in 1..(i - 1) : fs[j].FeatureID # featureID
    ELSE 0

NewSummary(featureID) ==
    [FeatureID |-> featureID, Status |-> "", Hash |-> << >>,
     FailureMessage |-> Nil, FailureReason |-> Nil,
     DeployedGroupVersionKind |-> << >>]


\* variant: a new entry on every call
SetFeatureStatus_appends(fs, featureID, status, hash) ==
    Append(fs, [NewSummary(featureID) EXCEPT !.Status = status, !.Hash = hash])

SetFeatureStatus(fs, featureID, status, hash) ==
    LET i == IndexOfFeature(fs, featureID)
    IN  IF i # 0
        THEN [fs EXCEPT ![i].Status = status, ![i].Hash = hash]
        ELSE Append(fs, [NewSummary(featureID) EXCEPT !.Status = status, !.Hash = hash])


\* variant: every entry of featureID is changed, not the first alone
SetFailureMessage_everyMatch(fs, featureID, failureMessage) ==
    IF \E i \in 1..Len(fs) : fs[i].FeatureID = featureID
    THEN [i \in 1..Len(fs) |->
            IF fs[i].FeatureID = featureID
            THEN [fs[i] EXCEPT !.FailureMessage = failureMessage]
            ELSE fs[i]]
    ELSE Append(fs, [NewSummary(featureID) EXCEPT !.FailureMessage = failureMessage])

SetFailureMessage(fs, featureID, failureMessage) ==
    LET i == IndexOfFeature(fs, featureID)
    IN  IF i # 0
        THEN [fs EXCEPT ![i].FailureMessage = failureMessage]
        ELSE Append(fs, [NewSummary(featureID) EXCEPT !.FailureMessage = failureMessage])

SetFailureReason(fs, featureID, failureReason) ==
    LET i == IndexOfFeature(fs, featureID)
    IN  IF i # 0
        THEN [fs EXCEPT ![i].FailureReason = failureReason]
        ELSE Append(fs, [NewSummary(featureID) EXCEPT !.FailureReason = failureReason])

SetDeployedGroupVersionKind(fs, featureID, gvks) ==
    LET i == IndexOfFeature(fs, featureID)
    IN  IF i # 0
        THEN [fs EXCEPT ![i].DeployedGroupVersionKind = gvks]
        ELSE Append(fs, [NewSummary(featureID) EXCEPT !.DeployedGroupVersionKind = gvks])

\* the summaries without the entries of featureID
RemoveFeatureSummary(fs, featureID) ==
    SelectSeq(fs, LAMBDA x : x.FeatureID # featureID)

(* ------------------------------------------------------------------ *)
(* Content hashes                                                      *)
(* ------------------------------------------------------------------ *)

\* h.Sum(nil) after h.Write(config): the digest of the rendered text.  It is
\* never the nil hash << >> of a summary that holds none, and sha256 is
\* taken as injective on the rendered text.
Sum(config) == <<config>>

\* variant: the digest of no input is the nil slice
EmptyHash_nil == << >>

\* sha256 over no bytes
EmptyHash == Sum(<< >>)

\* render.AsCode of the data of an object at a content version
Render(version) == <<version>>

\* The hash of the referenced objects of refs (kind given), in list order:
\* a missing object (version 0) is skipped, an object in apiErr makes the
\* lookup fail.
RECURSIVE HashRefs(_, _, _, _, _)
HashRefs(kind, refs, content, apiErr, config) ==
    IF refs = << >>
    THEN [hash |-> Sum(config), err |-> NoErr]
    ELSE LET obj == <<kind, Head(refs).Namespace, Head(refs).Name>>
         IN  IF obj \in apiErr
             THEN [hash |-> << >>, err |-> "failed to get"]
             ELSE IF content[obj] = 0
                  THEN HashRefs(kind, Tail(refs), content, apiErr, config)
                  ELSE HashRefs(kind, Tail(refs), content, apiErr,
                                config \o Render(content[obj]))


\* variant: the hash of a declared configuration starts from a marker
prometheusHash_marksDeclared(spec, content, apiErr) ==
    IF spec.PrometheusConfiguration = Nil
    THEN [hash |-> EmptyHash, err |-> NoErr]
    ELSE HashRefs(ConfigMap, spec.PrometheusConfiguration[1].PolicyRefs,
                  content, apiErr, Render(0))

\* variant: a referenced ConfigMap that does not exist fails the hash
prometheusHash_missingFails(spec, content, apiErr) ==
    IF spec.PrometheusConfiguration = Nil
    THEN [hash |-> EmptyHash, err |-> NoErr]
    ELSE HashRefs(ConfigMap, spec.PrometheusConfiguration[1].PolicyRefs,
                  content, apiErr \cup {o \in DOMAIN content : content[o] = 0}, << >>)

prometheusHash(spec, content, apiErr) ==
    IF spec.PrometheusConfiguration = Nil
    THEN [hash |-> EmptyHash, err |-> NoErr]
    ELSE HashRefs(ConfigMap, spec.PrometheusConfiguration[1].PolicyRefs,
                  content, apiErr, << >>)

kyvernoHash(spec, content, apiErr) ==
    IF spec.KyvernoConfiguration = Nil
    THEN [hash |-> EmptyHash, err |-> NoErr]
    ELSE HashRefs(ConfigMap, spec.KyvernoConfiguration[1].PolicyRefs,
                  content, apiErr, << >>)

workloadRoleHash(spec, content, apiErr) ==
    HashRefs(WorkloadRole, spec.WorkloadRoleRefs, content, apiErr, << >>)

currentHashOf(f, spec, content, apiErr) ==
    CASE f.currentHash = "workloadRoleHash" -> workloadRoleHash(spec, content, apiErr)
      [] f.currentHash = "kyvernoHash" -> kyvernoHash(spec, content, apiErr)
      [] f.currentHash = "prometheusHash" -> prometheusHash(spec, content, apiErr)

(* ------------------------------------------------------------------ *)
(* Feature orchestration: deployFeature / undeployFeature              *)
(* ------------------------------------------------------------------ *)

StoredHash(fs, featureID) ==
    IF IndexOfFeature(fs, featureID) = 0 THEN << >>
    ELSE fs[IndexOfFeature(fs, featureID)].Hash

IsProvisioned(fs, featureID) ==
    /\ IndexOfFeature(fs, featureID) # 0
    /\ fs[IndexOfFeature(fs, featureID)].Status = FeatureStatusProvisioned

\* One entry of the pass log: what happened to feature id in this pass.
LogEntry(id, called, err) == [id |-> id, called |-> called, err |-> err]

\* variant: a failed deploy stores the hash it was attempted for
deployFeature_storesNewHash(cs, f, content, apiErr, outcome) ==
    LET fs  == cs.Status.FeatureSummaries
        cur == currentHashOf(f, cs.Spec, content, apiErr)
        old == StoredHash(fs, f.id)
    IN  IF cur.err # NoErr
        THEN [cs |-> cs, err |-> cur.err, log |-> <<LogEntry(f.id, FALSE, cur.err)>>]
        ELSE IF IsProvisioned(fs, f.id) /\ old = cur.hash
        THEN [cs |-> cs, err |-> NoErr, log |-> <<LogEntry(f.id, FALSE, NoErr)>>]
        ELSE LET prov == SetFeatureStatus(fs, f.id, FeatureStatusProvisioning, old)
             IN  IF outcome = NoErr
                 THEN [cs  |-> [cs EXCEPT !.Status.FeatureSummaries =
                                  SetFailureReason(
                                    SetFailureMessage(
                                      SetFeatureStatus(prov, f.id, FeatureStatusProvisioned, cur.hash),
                                      f.id, Nil),
                                    f.id, Nil)],
                       err |-> NoErr,
                       log |-> <<LogEntry(f.id, TRUE, NoErr)>>]
                 ELSE [cs  |-> [cs EXCEPT !.Status.FeatureSummaries =
                                  SetFailureReason(
                                    SetFailureMessage(
                                      SetFeatureStatus(prov, f.id, FeatureStatusFailed, cur.hash),
                                      f.id, <<outcome>>),
                                    f.id, <<outcome>>)],
                       err |-> outcome,
                       log |-> <<LogEntry(f.id, TRUE, outcome)>>]

\* deployFeature for feature f on the staged ClusterSummary cs.  outcome is
\* what the feature's deploy function returns when it is invoked.
\*   - the hash cannot be computed: the error is returned, nothing is staged;
\*   - Provisioned and the hash matches: nothing to do, deploy is not invoked;
\*   - otherwise Provisioning, deploy is invoked, then Provisioned with the
\*     new hash, or Failed with the failure recorded and the old hash kept.
deployFeature(cs, f, content, apiErr, outcome) ==
    LET fs  == cs.Status.FeatureSummaries
        cur == currentHashOf(f, cs.Spec, content, apiErr)
        old == StoredHash(fs, f.id)
    IN  IF cur.err # NoErr
        THEN [cs |-> cs, err |-> cur.err, log |-> <<LogEntry(f.id, FALSE, cur.err)>>]
        ELSE IF IsProvisioned(fs, f.id) /\ old = cur.hash
        THEN [cs |-> cs, err |-> NoErr, log |-> <<LogEntry(f.id, FALSE, NoErr)>>]
        ELSE LET prov == SetFeatureStatus(fs, f.id, FeatureStatusProvisioning, old)
             IN  IF outcome = NoErr
                 THEN [cs  |-> [cs EXCEPT !.Status.FeatureSummaries =
                                  SetFailureReason(
                                    SetFailureMessage(
                                      SetFeatureStatus(prov, f.id, FeatureStatusProvisioned, cur.hash),
                                      f.id, Nil),
                                    f.id, Nil)],
                       err |-> NoErr,
                       log |-> <<LogEntry(f.id, TRUE, NoErr)>>]
                 ELSE [cs  |-> [cs EXCEPT !.Status.FeatureSummaries =
                                  SetFailureReason(
                                    SetFailureMessage(
                                      SetFeatureStatus(prov, f.id, FeatureStatusFailed, old),
                                      f.id, <<outcome>>),
                                    f.id, <<outcome>>)],
                       err |-> outcome,
                       log |-> <<LogEntry(f.id, TRUE, outcome)>>]

\* undeployFeature for feature f: the undeploy function is invoked; success
\* clears the summary of the feature, failure is recorded in it.
undeployFeature(cs, f, outcome) ==
    LET fs == cs.Status.FeatureSummaries
    IN  IF outcome = NoErr
        THEN [cs  |-> [cs EXCEPT !.Status.FeatureSummaries = RemoveFeatureSummary(fs, f.id)],
              err |-> NoErr,
              log |-> <<LogEntry(f.id, TRUE, NoErr)>>]
        ELSE [cs  |-> [cs EXCEPT !.Status.FeatureSummaries =
                         SetFailureMessage(
                           SetFeatureStatus(fs, f.id, FeatureStatusFailed, StoredHash(fs, f.id)),
                           f.id, <<outcome>>)],
              err |-> outcome,
              log |-> <<LogEntry(f.id, TRUE, outcome)>>]

(* ------------------------------------------------------------------ *)
(* ClusterSummaryReconciler: deploy, undeploy and their features       *)
(* ------------------------------------------------------------------ *)

\* unDeployPrometheus has nothing specific to do: it always succeeds
unDeployPrometheus(outcome) == NoErr

\* variant: the role feature is given the hash function of kyverno
deployRoles_kyvernoHash(cs, content, apiErr, outs) ==
    deployFeature(cs,
        [id |-> FeatureRole, currentHash |-> "kyvernoHash", deploy |-> "deployWorkloadRoles"],
        content, apiErr, outs[FeatureRole])

deployRoles(cs, content, apiErr, outs) ==
    deployFeature(cs,
        [id |-> FeatureRole, currentHash |-> "workloadRoleHash", deploy |-> "deployWorkloadRoles"],
        content, apiErr, outs[FeatureRole])

\* variant: a feature whose configuration is gone is undeployed
deployKyverno_undeploys(cs, content, apiErr, outs) ==
    IF cs.Spec.KyvernoConfiguration = Nil
    THEN undeployFeature(cs, [id |-> FeatureKyverno, undeploy |-> "unDeployKyverno"],
                         outs[FeatureKyverno])
    ELSE deployFeature(cs,
            [id |-> FeatureKyverno, currentHash |-> "kyvernoHash", deploy |-> "deployKyverno"],
            content, apiErr, outs[FeatureKyverno])

deployKyverno(cs, content, apiErr, outs) ==
    IF cs.Spec.KyvernoConfiguration = Nil
    THEN [cs |-> cs, err |-> NoErr, log |-> << >>]
    ELSE deployFeature(cs,
            [id |-> FeatureKyverno, currentHash |-> "kyvernoHash", deploy |-> "deployKyverno"],
            content, apiErr, outs[FeatureKyverno])


\* variant: deployFeature runs whether or not prometheus is configured
deployPrometheus_always(cs, content, apiErr, outs) ==
    deployFeature(cs,
        [id |-> FeaturePrometheus, currentHash |-> "prometheusHash", deploy |-> "deployPrometheus"],
        content, apiErr, outs[FeaturePrometheus])

deployPrometheus(cs, content, apiErr, outs) ==
    IF cs.Spec.PrometheusConfiguration = Nil
    THEN [cs |-> cs, err |-> NoErr, log |-> << >>]
    ELSE deployFeature(cs,
            [id |-> FeaturePrometheus, currentHash |-> "prometheusHash", deploy |-> "deployPrometheus"],
            content, apiErr, outs[FeaturePrometheus])

\* variant: deploy returns at the first feature that fails
deploy_failFast(cs, content, apiErr, outs) ==
    LET w == deployRoles(cs, content, apiErr, outs)
        k == deployKyverno(w.cs, content, apiErr, outs)
        p == deployPrometheus(k.cs, content, apiErr, outs)
    IN  IF w.err # NoErr THEN w
        ELSE IF k.err # NoErr THEN [cs |-> k.cs, err |-> k.err, log |-> w.log \o k.log]
        ELSE [cs |-> p.cs, err |-> p.err, log |-> w.log \o k.log \o p.log]

\* variant: deploy returns the error of the last feature only
deploy_lastError(cs, content, apiErr, outs) ==
    LET w == deployRoles(cs, content, apiErr, outs)
        k == deployKyverno(w.cs, content, apiErr, outs)
        p == deployPrometheus(k.cs, content, apiErr, outs)
    IN  [cs |-> p.cs, err |-> p.err, log |-> w.log \o k.log \o p.log]

deploy(cs, content, apiErr, outs) ==
    LET w == deployRoles(cs, content, apiErr, outs)
        k == deployKyverno(w.cs, content, apiErr, outs)
        p == deployPrometheus(k.cs, content, apiErr, outs)
    IN  [cs  |-> p.cs,
         err |-> IF w.err # NoErr THEN w.err
                 ELSE IF k.err # NoErr THEN k.err
                 ELSE IF p.err # NoErr THEN p.err
                 ELSE NoErr,
         log |-> w.log \o k.log \o p.log]

undeployRoles(cs, outs) ==
    undeployFeature(cs,
        [id |-> FeatureRole, currentHash |-> "workloadRoleHash", deploy |-> "unDeployWorkloadRoles"],
        outs[FeatureRole])

undeployKyverno(cs, outs) ==
    undeployFeature(cs,
        [id |-> FeatureKyverno, currentHash |-> "kyvernoHash", deploy |-> "unDeployKyverno"],
        outs[FeatureKyverno])

undeployPrometheus(cs, outs) ==
    undeployFeature(cs,
        [id |-> FeaturePrometheus, currentHash |-> "prometheusHash", deploy |-> "unDeployPrometheus"],
        unDeployPrometheus(outs[FeaturePrometheus]))

\* variant: undeploy returns at the first feature that fails
undeploy_failFast(cs, clusterGet, outs) ==
    IF clusterGet # NoErr
    THEN [cs |-> cs, err |-> IF clusterGet = "NotFound" THEN NoErr ELSE clusterGet,
          log |-> << >>]
    ELSE LET w == undeployRoles(cs, outs)
             k == undeployKyverno(w.cs, outs)
             p == undeployPrometheus(k.cs, outs)
         IN  IF w.err # NoErr THEN w
             ELSE IF k.err # NoErr THEN [cs |-> k.cs, err |-> k.err, log |-> w.log \o k.log]
             ELSE [cs |-> p.cs, err |-> p.err, log |-> w.log \o k.log \o p.log]

\* variant: a Cluster that is not found is an error like any other
undeploy_notFoundFails(cs, clusterGet, outs) ==
    IF clusterGet # NoErr
    THEN [cs |-> cs, err |-> clusterGet, log |-> << >>]
    ELSE LET w == undeployRoles(cs, outs)
             k == undeployKyverno(w.cs, outs)
             p == undeployPrometheus(k.cs, outs)
         IN  [cs  |-> p.cs,
              err |-> IF w.err # NoErr THEN w.err
                      ELSE IF k.err # NoErr THEN k.err
                      ELSE IF p.err # NoErr THEN p.err
                      ELSE NoErr,
              log |-> w.log \o k.log \o p.log]

\* clusterGet is the outcome of the lookup of the CAPI Cluster:
\* NoErr, "NotFound" or another error
undeploy(cs, clusterGet, outs) ==
    IF clusterGet # NoErr
    THEN [cs |-> cs, err |-> IF clusterGet = "NotFound" THEN NoErr ELSE clusterGet,
          log |-> << >>]
    ELSE LET w == undeployRoles(cs, outs)
             k == undeployKyverno(w.cs, outs)
             p == undeployPrometheus(k.cs, outs)
         IN  [cs  |-> p.cs,
              err |-> IF w.err # NoErr THEN w.err
                      ELSE IF k.err # NoErr THEN k.err
                      ELSE IF p.err # NoErr THEN p.err
                      ELSE NoErr,
              log |-> w.log \o k.log \o p.log]

\* a reconcile.Result
Result(requeue, requeueAfter) == [Requeue |-> requeue, RequeueAfter |-> requeueAfter]

\* variant: the finalizer is removed whatever undeploy returned
reconcileDelete_alwaysRemoves(cs, clusterGet, outs) ==
    LET u == undeploy(cs, clusterGet, outs)
    IN  [cs |-> [u.cs EXCEPT !.Finalizers = FALSE],
         result |-> IF u.err # NoErr THEN Result(TRUE, deleteRequeueAfter)
                    ELSE Result(FALSE, 0),
         err |-> NoErr, log |-> u.log, undeployErr |-> u.err]

\* variant: a failed undeploy is not retried
reconcileDelete_noRequeue(cs, clusterGet, outs) ==
    LET u == undeploy(cs, clusterGet, outs)
    IN  IF u.err # NoErr
        THEN [cs |-> u.cs, result |-> Result(FALSE, 0), err |-> NoErr,
              log |-> u.log, undeployErr |-> u.err]
        ELSE [cs |-> [u.cs EXCEPT !.Finalizers = FALSE], result |-> Result(FALSE, 0),
              err |-> NoErr, log |-> u.log, undeployErr |-> u.err]

\* reconcileDelete on the staged ClusterSummary: (ClusterSummary, result, error, log)
reconcileDelete(cs, clusterGet, outs) ==
    LET u == undeploy(cs, clusterGet, outs)
    IN  IF u.err # NoErr
        THEN [cs |-> u.cs, result |-> Result(TRUE, deleteRequeueAfter), err |-> NoErr,
              log |-> u.log, undeployErr |-> u.err]
        ELSE [cs |-> [u.cs EXCEPT !.Finalizers = FALSE], result |-> Result(FALSE, 0),
              err |-> NoErr, log |-> u.log, undeployErr |-> u.err]

\* Status.PolicyPrefix is 0 for the empty string and n > 0 for "cs" followed
\* by the n-th string util.RandomString(10) returned
EmptyPrefix == 0


\* variant: a prefix is generated in every pass
generatePolicyNamePrefix_always(cs, random) ==
    [cs EXCEPT !.Status.PolicyPrefix = random]

generatePolicyNamePrefix(cs, random) ==
    IF cs.Status.PolicyPrefix = EmptyPrefix
    THEN [cs EXCEPT !.Status.PolicyPrefix = random]
    ELSE cs

(* ------------------------------------------------------------------ *)
(* State                                                               *)
(* ------------------------------------------------------------------ *)

VARIABLES
    store,              \* the ClusterSummary objects held by the API server
    content,            \* content version of each referenced object, 0: absent
    ReferenceMap,       \* entry -> Set of ClusterSummary names
    ClusterSummaryMap,  \* ClusterSummary name -> Set of entries
    Mux,                \* "" when free, else the name of the holder
    queue,              \* names waiting in the controller's work queue
    pending,            \* changed objects whose notification is not handled yet
    pc,                 \* position of the reconciliation of each ClusterSummary
    scope,              \* the ClusterSummaryScope and locals of each reconciliation
    randoms,            \* number of strings util.RandomString has returned
    budget              \* edits, faults and delete requests still allowed

vars == <<store, content, ReferenceMap, ClusterSummaryMap, Mux, queue, pending,
          pc, scope, randoms, budget>>

EmptyStatus == [FeatureSummaries |-> << >>, PolicyPrefix |-> EmptyPrefix]

\* the object a reconciliation holds when it holds none
NoObject ==
    [exists |-> FALSE, DeletionTimestamp |-> FALSE, Finalizers |-> FALSE,
     Spec |-> ClusterFeatureSpec(<< >>, Nil, Nil),
     Status |-> EmptyStatus]

\* the locals of a reconciliation that is not running
NoScope ==
    [open |-> FALSE, ClusterSummary |-> NoObject,
     currentReferences |-> {}, toBeRemoved |-> {}, previous |-> {},
     result |-> Result(FALSE, 0), reterr |-> NoErr,
     path |-> "", log |-> << >>, bodyErr |-> NoErr, clusterGet |-> NoErr,
     ownerGet |-> NoErr,
     closed |-> 0, closeErr |-> NoErr]

Outcomes == {NoErr, "failed"}

ClusterGetOutcomes == {NoErr, "NotFound", "error"}

ApiErrChoices == {{}, {CmObj2}}

\* a ClusterSummary as it is created: no finalizer, no status
Created(spec) ==
    [exists |-> TRUE, DeletionTimestamp |-> FALSE, Finalizers |-> FALSE,
     Spec |-> spec, Status |-> EmptyStatus]

\* The controller starts with two empty maps and the ClusterSummaries in
\* live created and queued; the others do not exist.
InitWith(live, edits, faults, deletes) ==
    /\ store \in [ClusterSummaries -> {NoObject} \cup {Created(s) : s \in SpecChoices}]
    /\ \A c \in ClusterSummaries : store[c].exists <=> c \in live
    /\ content = [o \in Objects |-> 1]
    /\ ReferenceMap = << >>
    /\ ClusterSummaryMap = << >>
    /\ Mux = ""
    /\ queue = live
    /\ pending = {}
    /\ pc = [c \in ClusterSummaries |-> "idle"]
    /\ scope = [c \in ClusterSummaries |-> NoScope]
    /\ randoms = 0
    /\ budget = [edits |-> edits, faults |-> faults, deletes |-> deletes]

\* one ClusterSummary through its whole life
Init == InitWith({"cs1"}, MaxEdits, MaxFaults, MaxDeletes)

\* every ClusterSummary reconciled concurrently, no fault, no deletion
InitConcurrent == InitWith(ClusterSummaries, MaxConcurrentEdits, 0, 0)

(* ------------------------------------------------------------------ *)
(* Reconcile, step by step                                             *)
(* ------------------------------------------------------------------ *)

\* number of injected faults among the outcomes drawn by a step
Faults(errs) == Cardinality({i \in DOMAIN errs : errs[i] # NoErr})

\* what the controller does with the value Reconcile returned
Requeues(result, err) == err # NoErr \/ result.Requeue \/ result.RequeueAfter > 0


\* variant: no function is deferred
deferred_nothing(created) == "done"

\* where Reconcile goes when it returns: once the scope is created the
\* deferred function runs first and closes the scope
deferred(created) == IF created THEN "close" ELSE "done"

\* variant: the deletion timestamp is not looked at
reconcilePath_ignoresDeletion(cs) == "normal"


\* variant: a deleted ClusterSummary that holds the finalizer is reconciled
\* as a live one
reconcilePath_checksFinalizer(cs) ==
    IF cs.DeletionTimestamp /\ ~cs.Finalizers THEN "delete" ELSE "normal"

\* Reconcile, once the scope exists: a deleted ClusterSummary is handled by
\* reconcileDelete, any other by reconcileNormal
reconcilePath(cs) == IF cs.DeletionTimestamp THEN "delete" ELSE "normal"


\* r.Get of a ClusterSummary: the injected fault, NotFound for an object
\* that does not exist, no error otherwise
Get(obj, fault) ==
    IF fault # NoErr THEN fault
    ELSE IF ~obj.exists THEN "NotFound"
    ELSE NoErr

\* variant: NotFound is returned like any other error
fetchFailed_returnsNotFound(err) == [path |-> "fetchError", err |-> err]

\* Reconcile when r.Get fails with err: NotFound ends the pass without
\* error, any other error is returned
fetchFailed(err) ==
    IF err = "NotFound"
    THEN [path |-> "notFound", err |-> NoErr]
    ELSE [path |-> "fetchError", err |-> err]


\* outcomes of getClusterFeatureOwner: the owner is found, the owner is
\* gone, the lookup fails
OwnerOutcomes == {NoErr, "NotFound", "failed"}

\* Reconcile when getClusterFeatureOwner fails with err: the error is
\* returned, whatever it is
ownerFailed(err) == [path |-> "ownerError", err |-> err]

\* Reconcile up to the creation of the scope: the ClusterSummary is fetched,
\* its owner looked up, the scope created.
Fetch(c) ==
    /\ pc[c] = "idle"
    /\ c \in queue
    /\ queue' = queue \ {c}
    /\ \E getErr \in Outcomes, ownerErr \in OwnerOutcomes :
       /\ getErr # NoErr => ownerErr = NoErr
       /\ (~store[c].exists) => ownerErr = NoErr
       /\ Faults(<<getErr, ownerErr>>) <= budget.faults
       /\ budget' = [budget EXCEPT !.faults = @ - (Faults(<<getErr, ownerErr>>))]
       /\
         IF Get(store[c], getErr) # NoErr
         THEN /\ scope' = [scope EXCEPT ![c] =
                              [NoScope EXCEPT !.path = fetchFailed(Get(store[c], getErr)).path,
                                              !.reterr = fetchFailed(Get(store[c], getErr)).err]]
              /\ pc' = [pc EXCEPT ![c] = deferred(FALSE)]
         ELSE IF ownerErr # NoErr
         THEN /\ scope' = [scope EXCEPT ![c] =
                              [NoScope EXCEPT !.path = ownerFailed(ownerErr).path,
                                              !.reterr = ownerFailed(ownerErr).err,
                                              !.ownerGet = ownerErr]]
              /\ pc' = [pc EXCEPT ![c] = deferred(FALSE)]
         ELSE /\ scope' = [scope EXCEPT ![c] =
                              [NoScope EXCEPT !.open = TRUE, !.ClusterSummary = store[c],
                                              !.path = reconcilePath(store[c])]]
              /\ pc' = [pc EXCEPT ![c] = reconcilePath(store[c])]
    /\ UNCHANGED <<store, content, ReferenceMap, ClusterSummaryMap, Mux, pending, randoms>>

\* Reconcile -> reconcileDelete: undeploy, then the finalizer is removed
ReconcileDelete(c) ==
    /\ pc[c] = "delete"
    /\ \E clusterGet \in ClusterGetOutcomes, outs \in [Features -> Outcomes] :
         LET r == reconcileDelete(scope[c].ClusterSummary, clusterGet, outs)
             n == Faults(<<clusterGet>>) + Faults(outs)
         IN  /\ clusterGet # NoErr => Faults(outs) = 0
             /\ outs[FeaturePrometheus] = NoErr
             /\ n <= budget.faults
             /\ budget' = [budget EXCEPT !.faults = @ - (n)]
             /\ scope' = [scope EXCEPT ![c].ClusterSummary = r.cs,
                                       ![c].result = r.result,
                                       ![c].reterr = r.err,
                                       ![c].bodyErr = r.undeployErr,
                                       ![c].clusterGet = clusterGet,
                                       ![c].log = r.log]
    /\ pc' = [pc EXCEPT ![c] = deferred(TRUE)]
    /\ UNCHANGED <<store, content, ReferenceMap, ClusterSummaryMap, Mux, queue, pending, randoms>>


\* clusterSummaryScope.PatchObject on the stored object obj: NotFound when
\* the object is gone, the injected fault otherwise
PatchObject(obj, fault) == IF ~obj.exists THEN "NotFound" ELSE fault

\* variant: the error of PatchObject is not returned
addFinalizer_ignoresError(obj, fault) == NoErr

\* addFinalizer once the finalizer is set on the staged ClusterSummary: the
\* error of PatchObject is returned
addFinalizer(obj, fault) == PatchObject(obj, fault)

\* reconcileNormal: the finalizer is added and patched when it is missing,
\* then the policy name prefix is generated
AddFinalizer(c) ==
    /\ pc[c] = "normal"
    /\ \E patchErr \in Outcomes :
         LET cs   == scope[c].ClusterSummary
             need == ~cs.Finalizers
             err  == IF need THEN addFinalizer(store[c], patchErr) ELSE NoErr
             done == need /\ PatchObject(store[c], patchErr) = NoErr
             fin  == [cs EXCEPT !.Finalizers = TRUE]
         IN  /\ (~need \/ ~store[c].exists) => patchErr = NoErr
             /\ Faults(<<patchErr>>) <= budget.faults
             /\ budget' = [budget EXCEPT !.faults = @ - (Faults(<<patchErr>>))]
             /\ IF err # NoErr
                THEN /\ scope' = [scope EXCEPT ![c].ClusterSummary = fin,
                                               ![c].result = Result(FALSE, 0),
                                               ![c].reterr = err,
                                               ![c].path = "finalizerError"]
                     /\ pc' = [pc EXCEPT ![c] = deferred(TRUE)]
                     /\ UNCHANGED <<store, queue, randoms>>
                ELSE /\ scope' = [scope EXCEPT ![c].ClusterSummary =
                                                  generatePolicyNamePrefix(fin, randoms + 1)]
                     /\ pc' = [pc EXCEPT ![c] = "lock"]
                     /\ store' = IF done THEN [store EXCEPT ![c].Finalizers = TRUE]
                                 ELSE store
                     /\ queue' = IF done THEN queue \cup {c} ELSE queue
                     /\ randoms' = IF cs.Status.PolicyPrefix = EmptyPrefix
                                   THEN randoms + 1 ELSE randoms
    /\ UNCHANGED <<content, ReferenceMap, ClusterSummaryMap, Mux, pending>>

\* variant: the map is updated without taking the mutex
MuxLockable_always(mux) == TRUE

\* r.Mux.Lock() can return
MuxLockable(mux) == mux = ""

\* variant: the deferred Unlock is missing
MuxUnlock_missing(mux) == mux

\* r.Mux.Unlock(), deferred to the end of updatesMaps
MuxUnlock(mux) == ""

\* updatesMaps: the current references are computed, the mutex is taken and
\* the references not referenced anymore are listed
UpdatesMapsLock(c) ==
    /\ pc[c] = "lock"
    /\ MuxLockable(Mux)
    /\ Mux' = c
    /\ LET cur == getCurrentReferences(scope[c].ClusterSummary.Spec)
       IN  scope' = [scope EXCEPT ![c].currentReferences = cur,
                                  ![c].previous = SetAt(ClusterSummaryMap, c),
                                  ![c].toBeRemoved = toBeRemovedOf(ClusterSummaryMap, c, cur)]
    /\ pc' = [pc EXCEPT ![c] = "insert"]
    /\ UNCHANGED <<store, content, ReferenceMap, ClusterSummaryMap, queue, pending, budget, randoms>>

UpdatesMapsInsert(c) ==
    /\ pc[c] = "insert"
    /\ ReferenceMap' = InsertConsumer(ReferenceMap, scope[c].currentReferences, c)
    /\ pc' = [pc EXCEPT ![c] = "erase"]
    /\ UNCHANGED <<store, content, ClusterSummaryMap, Mux, queue, pending, scope, budget, randoms>>

UpdatesMapsErase(c) ==
    /\ pc[c] = "erase"
    /\ ReferenceMap' = EraseConsumer(ReferenceMap, scope[c].toBeRemoved, c)
    /\ pc' = [pc EXCEPT ![c] = "assign"]
    /\ UNCHANGED <<store, content, ClusterSummaryMap, Mux, queue, pending, scope, budget, randoms>>

UpdatesMapsAssign(c) ==
    /\ pc[c] = "assign"
    /\ ClusterSummaryMap' =
          AssignClusterSummaryMap(ClusterSummaryMap, c, scope[c].currentReferences)
    /\ Mux' = MuxUnlock(Mux)
    /\ pc' = [pc EXCEPT ![c] = "deploy"]
    /\ UNCHANGED <<store, content, ReferenceMap, queue, pending, scope, budget, randoms>>

\* variant: the error of deploy is returned to the controller
reconcileNormalReturn_escalates(deployErr) ==
    [result |-> Result(FALSE, 0), err |-> deployErr]

\* what reconcileNormal returns for the error deploy returned
reconcileNormalReturn(deployErr) ==
    IF deployErr # NoErr
    THEN [result |-> Result(TRUE, normalRequeueAfter), err |-> NoErr]
    ELSE [result |-> Result(FALSE, 0), err |-> NoErr]

\* reconcileNormal: deploy of every feature
Deploy(c) ==
    /\ pc[c] = "deploy"
    /\ \E outs \in [Features -> Outcomes], apiErr \in ApiErrChoices :
         LET r   == deploy(scope[c].ClusterSummary, content, apiErr, outs)
             ret == reconcileNormalReturn(r.err)
             n   == Faults(outs) + Cardinality(apiErr)
         IN  /\ n <= budget.faults
             /\ budget' = [budget EXCEPT !.faults = @ - (n)]
             /\ scope' = [scope EXCEPT ![c].ClusterSummary = r.cs,
                                       ![c].result = ret.result,
                                       ![c].reterr = ret.err,
                                       ![c].bodyErr = r.err,
                                       ![c].log = r.log]
    /\ pc' = [pc EXCEPT ![c] = deferred(TRUE)]
    /\ UNCHANGED <<store, content, ReferenceMap, ClusterSummaryMap, Mux, queue, pending, randoms>>


\* variant: the error of Close is dropped
deferredClose_dropsError(reterr, err) == reterr

\* the deferred function of Reconcile: reterr becomes the error of Close
\* when Close fails (err) and stays the error of the body otherwise
deferredClose(reterr, err) == IF err # NoErr THEN err ELSE reterr

\* the object of the API server after a patch of the staged ClusterSummary:
\* status and finalizers are written; an object marked for deletion whose
\* finalizer is gone is removed
Patched(obj, cs) ==
    IF obj.DeletionTimestamp /\ ~cs.Finalizers
    THEN NoObject
    ELSE [obj EXCEPT !.Status = cs.Status, !.Finalizers = cs.Finalizers]

\* the deferred Close of the scope: the one write-back of the pass
Close(c) ==
    /\ pc[c] = "close"
    /\ \E closeErr \in Outcomes :
         LET err == IF ~store[c].exists THEN "NotFound" ELSE closeErr
             new == Patched(store[c], scope[c].ClusterSummary)
         IN  /\ ~store[c].exists => closeErr = NoErr
             /\ Faults(<<closeErr>>) <= budget.faults
             /\ budget' = [budget EXCEPT !.faults = @ - (Faults(<<closeErr>>))]
             /\ scope' = [scope EXCEPT ![c].closed = @ + 1,
                                       ![c].closeErr = err,
                                       ![c].reterr = deferredClose(@, err)]
             /\ store' = IF err = NoErr THEN [store EXCEPT ![c] = new] ELSE store
             /\ queue' = IF err = NoErr /\ new # store[c] THEN queue \cup {c} ELSE queue
    /\ pc' = [pc EXCEPT ![c] = "done"]
    /\ UNCHANGED <<content, ReferenceMap, ClusterSummaryMap, Mux, pending, randoms>>

\* Reconcile has returned: the controller requeues or forgets the request
Return(c) ==
    /\ pc[c] = "done"
    /\ queue' = IF Requeues(scope[c].result, scope[c].reterr) THEN queue \cup {c} ELSE queue
    /\ scope' = [scope EXCEPT ![c] = NoScope]
    /\ pc' = [pc EXCEPT ![c] = "idle"]
    /\ UNCHANGED <<store, content, ReferenceMap, ClusterSummaryMap, Mux, pending, budget, randoms>>

(* ------------------------------------------------------------------ *)
(* The environment                                                     *)
(* ------------------------------------------------------------------ *)

\* the spec of a ClusterSummary is edited
EditSpec(c) ==
    /\ budget.edits > 0
    /\ store[c].exists
    /\ \E s \in SpecChoices \ {store[c].Spec} :
         store' = [store EXCEPT ![c].Spec = s]
    /\ queue' = queue \cup {c}
    /\ budget' = [budget EXCEPT !.edits = @ - 1]
    /\ UNCHANGED <<content, ReferenceMap, ClusterSummaryMap, Mux, pending, pc, scope, randoms>>

\* a referenced object is created, changed or deleted
EditContent(o) ==
    /\ budget.edits > 0
    /\ \E v \in (0..MaxVersion) \ {content[o]} :
         content' = [content EXCEPT ![o] = v]
    /\ pending' = pending \cup {o}
    /\ budget' = [budget EXCEPT !.edits = @ - 1]
    /\ UNCHANGED <<store, ReferenceMap, ClusterSummaryMap, Mux, queue, pc, scope, randoms>>

\* deletion of a ClusterSummary is requested: it is marked when it holds the
\* finalizer and removed at once when it does not
DeleteRequest(c) ==
    /\ budget.deletes > 0
    /\ budget' = [budget EXCEPT !.deletes = @ - 1]
    /\ store[c].exists
    /\ ~store[c].DeletionTimestamp
    /\ store' = [store EXCEPT ![c] = IF store[c].Finalizers
                                      THEN [@ EXCEPT !.DeletionTimestamp = TRUE]
                                      ELSE NoObject]
    /\ queue' = queue \cup {c}
    /\ UNCHANGED <<content, ReferenceMap, ClusterSummaryMap, Mux, pending, pc, scope, randoms>>

\* the names to reconcile when object o changed
consumersOf(rm, o) == SetAt(rm, EntryOf(o))

\* the MapFunc of the watch on referenced objects: under the mutex, every
\* ClusterSummary referencing the changed object is queued
Notify(o) ==
    /\ o \in pending
    /\ MuxLockable(Mux)
    /\ queue' = queue \cup consumersOf(ReferenceMap, o)
    /\ pending' = pending \ {o}
    /\ UNCHANGED <<store, content, ReferenceMap, ClusterSummaryMap, Mux, pc, scope, budget, randoms>>

Next ==
    \/ \E c \in ClusterSummaries : Fetch(c)
    \/ \E c \in ClusterSummaries : ReconcileDelete(c)
    \/ \E c \in ClusterSummaries : AddFinalizer(c)
    \/ \E c \in ClusterSummaries : UpdatesMapsLock(c)
    \/ \E c \in ClusterSummaries : UpdatesMapsInsert(c)
    \/ \E c \in ClusterSummaries : UpdatesMapsErase(c)
    \/ \E c \in ClusterSummaries : UpdatesMapsAssign(c)
    \/ \E c \in ClusterSummaries : Deploy(c)
    \/ \E c \in ClusterSummaries : Close(c)
    \/ \E c \in ClusterSummaries : Return(c)
    \/ \E c \in ClusterSummaries : EditSpec(c)
    \/ \E o \in Objects : EditContent(o)
    \/ \E c \in ClusterSummaries : DeleteRequest(c)
    \/ \E o \in Objects : Notify(o)

Spec == Init /\ [][Next]_vars

\* concurrent reconciliations of ClusterSummaries whose specs are edited
NextConcurrent ==
    \/ \E c \in ClusterSummaries : Fetch(c)
    \/ \E c \in ClusterSummaries : AddFinalizer(c)
    \/ \E c \in ClusterSummaries : UpdatesMapsLock(c)
    \/ \E c \in ClusterSummaries : UpdatesMapsInsert(c)
    \/ \E c \in ClusterSummaries : UpdatesMapsErase(c)
    \/ \E c \in ClusterSummaries : UpdatesMapsAssign(c)
    \/ \E c \in ClusterSummaries : Deploy(c)
    \/ \E c \in ClusterSummaries : Close(c)
    \/ \E c \in ClusterSummaries : Return(c)
    \/ \E c \in ClusterSummaries : EditSpec(c)

SpecConcurrent == InitConcurrent /\ [][NextConcurrent]_vars

(* ------------------------------------------------------------------ *)
(* Properties                                                          *)
(* ------------------------------------------------------------------ *)

\* one ClusterSummary created, reconciled and deleted; nothing is edited
InitLifecycle == InitWith({"cs1"}, 0, MaxFaults, MaxDeletes)

\* the next step of the reconciliation of c, from the queue to the return
ReconcileStep(c) ==
    \/ Fetch(c)
    \/ ReconcileDelete(c)
    \/ AddFinalizer(c)
    \/ UpdatesMapsLock(c)
    \/ UpdatesMapsInsert(c)
    \/ UpdatesMapsErase(c)
    \/ UpdatesMapsAssign(c)
    \/ Deploy(c)
    \/ Close(c)
    \/ Return(c)

NextLifecycle ==
    \/ \E c \in ClusterSummaries : ReconcileStep(c)
    \/ \E c \in ClusterSummaries : DeleteRequest(c)

\* the positions of a reconciliation
Positions ==
    {"idle", "delete", "normal", "lock", "insert", "erase", "assign", "deploy",
     "close", "done"}

\* ReconcileStep(c) can be taken: the request is queued, or Reconcile is
\* running and not waiting for the mutex (a collaborator can always answer
\* without a failure, so no other step ever waits)
ReconcileEnabled(c) ==
    \/ pc[c] = "idle" /\ c \in queue
    \/ pc[c] = "lock" /\ MuxLockable(Mux)
    \/ pc[c] \notin {"idle", "lock"}

\* the reconciliation of c moves on: the steps of ReconcileStep(c) are the
\* only ones that change pc[c], and each of them does
Scheduled(c) ==
    /\ ReconcileEnabled(c)
    /\ \E p \in Positions \ {pc[c]} : pc' = [pc EXCEPT ![c] = p]

\* The controller keeps working: a queued request is eventually handed to
\* Reconcile and a running Reconcile eventually takes its next step.  The
\* failures of collaborators are bounded (MaxFaults), so every call that
\* keeps being retried eventually succeeds.
Fairness == \A c \in ClusterSummaries : WF_pc(Scheduled(c))

FairSpec == InitLifecycle /\ [][NextLifecycle]_vars /\ Fairness


(* ------------------------------------------------------------------ *)
(* The status scope on its own: mutators applied in any order           *)
(* ------------------------------------------------------------------ *)

\* the feature identifiers the mutators are called with
MutatorFeatures == {FeatureRole, FeatureKyverno}

\* hashes passed to SetFeatureStatus
MutatorHashes == {Sum(Render(v)) : v \in 1..MaxVersion}

\* statuses passed to SetFeatureStatus
MutatorStatuses == {FeatureStatusProvisioning, FeatureStatusProvisioned}

\* *string arguments of SetFailureMessage and SetFailureReason
failedToDeploy == <<"failed to deploy">>

MutatorPointers == {Nil, failedToDeploy}

\* deployed kinds passed to SetDeployedGroupVersionKind
MutatorKinds == {<< >>, <<"ClusterPolicy.v1.kyverno.io", "Policy.v1.kyverno.io">>}

\* a summary as the tests build it
Summary(featureID, status, hash) ==
    [NewSummary(featureID) EXCEPT !.Status = status, !.Hash = hash]

\* Status.FeatureSummaries of the ClusterSummary handed to the scope: none,
\* one for Kyverno, and a list in which Kyverno appears twice
StatusInputs ==
    { << >>,
      << Summary(FeatureKyverno, FeatureStatusProvisioned, Sum(Render(1))) >>,
      << Summary(FeatureKyverno, FeatureStatusProvisioned, Sum(Render(1))),
         Summary(FeatureKyverno, FeatureStatusProvisioning, Sum(Render(2))) >> }

\* a scope created on ClusterSummary cs
NewClusterSummaryScope(cs) ==
    [NoScope EXCEPT !.open = TRUE, !.ClusterSummary = cs]

\* a mutator call as the scope remembers it
Call(op, featureID, args) == [op |-> op, FeatureID |-> featureID, args |-> args]

\* cs1 exists with one of the StatusInputs and a scope is open on it;
\* nothing is queued and no Reconcile runs
InitStatusScope ==
    /\ \E fs \in StatusInputs :
         store = [c \in ClusterSummaries |->
                    IF c = "cs1"
                    THEN [Created(ClusterFeatureSpec(<< >>, Nil, Nil))
                            EXCEPT !.Status.FeatureSummaries = fs]
                    ELSE NoObject]
    /\ content = [o \in Objects |-> 1]
    /\ ReferenceMap = << >>
    /\ ClusterSummaryMap = << >>
    /\ Mux = ""
    /\ queue = {}
    /\ pending = {}
    /\ pc = [c \in ClusterSummaries |-> "idle"]
    /\ scope = [c \in ClusterSummaries |->
                  IF store[c].exists THEN NewClusterSummaryScope(store[c])
                  ELSE NoScope]
    /\ randoms = 0
    /\ budget = [edits |-> 0, faults |-> 0, deletes |-> 0]

\* the scope of c after a mutator call that leaves the summaries fs
Mutated(c, fs, call) ==
    /\ scope[c].open
    /\ scope' = [scope EXCEPT ![c].ClusterSummary.Status.FeatureSummaries = fs,
                              ![c].log = <<call>>]
    /\ UNCHANGED <<store, content, ReferenceMap, ClusterSummaryMap, Mux, queue,
                   pending, pc, randoms, budget>>

CallSetFeatureStatus(c) ==
    \E f \in MutatorFeatures, s \in MutatorStatuses, h \in MutatorHashes :
        Mutated(c, SetFeatureStatus(scope[c].ClusterSummary.Status.FeatureSummaries, f, s, h),
                Call("SetFeatureStatus", f, <<s, h>>))

CallSetFailureMessage(c) ==
    \E f \in MutatorFeatures, m \in MutatorPointers :
        Mutated(c, SetFailureMessage(scope[c].ClusterSummary.Status.FeatureSummaries, f, m),
                Call("SetFailureMessage", f, <<m>>))

CallSetFailureReason(c) ==
    \E f \in MutatorFeatures, r \in MutatorPointers :
        Mutated(c, SetFailureReason(scope[c].ClusterSummary.Status.FeatureSummaries, f, r),
                Call("SetFailureReason", f, <<r>>))

CallSetDeployedGroupVersionKind(c) ==
    \E f \in MutatorFeatures, k \in MutatorKinds :
        Mutated(c, SetDeployedGroupVersionKind(scope[c].ClusterSummary.Status.FeatureSummaries, f, k),
                Call("SetDeployedGroupVersionKind", f, <<k>>))

NextStatusScope ==
    \E c \in ClusterSummaries :
        \/ CallSetFeatureStatus(c)
        \/ CallSetFailureMessage(c)
        \/ CallSetFailureReason(c)
        \/ CallSetDeployedGroupVersionKind(c)

SpecStatusScope == InitStatusScope /\ [][NextStatusScope]_vars


(* ------------------------------------------------------------------ *)
(* prometheusHash on its own                                            *)
(* ------------------------------------------------------------------ *)

\* PrometheusConfiguration values the hash is computed for: none, no
\* reference, one reference, two references in both orders
PrometheusInputs ==
    { Nil,
      <<[PolicyRefs |-> << >>]>>,
      <<[PolicyRefs |-> <<Ref(CmObj1)>>]>>,
      <<[PolicyRefs |-> <<Ref(CmObj1), Ref(CmObj2)>>]>>,
      <<[PolicyRefs |-> <<Ref(CmObj2), Ref(CmObj1)>>]>> }

\* the ConfigMaps whose lookup fails with an error other than NotFound
LookupFailures == SUBSET {CmObj1, CmObj2}

\* a call of prometheusHash as the scope remembers it
HashCall(apiErr, r) ==
    [op |-> "prometheusHash", apiErr |-> apiErr, hash |-> r.hash, err |-> r.err]

\* cs1 exists with one of the PrometheusInputs, every referenced object is
\* missing (0) or at some version, and a scope is open on cs1
InitPrometheusHash ==
    /\ \E p \in PrometheusInputs :
         store = [c \in ClusterSummaries |->
                    IF c = "cs1" THEN Created(ClusterFeatureSpec(<< >>, Nil, p))
                    ELSE NoObject]
    /\ content \in [Objects -> 0..MaxVersion]
    /\ ReferenceMap = << >>
    /\ ClusterSummaryMap = << >>
    /\ Mux = ""
    /\ queue = {}
    /\ pending = {}
    /\ pc = [c \in ClusterSummaries |-> "idle"]
    /\ scope = [c \in ClusterSummaries |->
                  IF store[c].exists THEN NewClusterSummaryScope(store[c])
                  ELSE NoScope]
    /\ randoms = 0
    /\ budget = [edits |-> 0, faults |-> 0, deletes |-> 0]

\* prometheusHash is called on the scope of c
CallPrometheusHash(c) ==
    /\ scope[c].open
    /\ \E apiErr \in LookupFailures :
         scope' = [scope EXCEPT ![c].log =
                     <<HashCall(apiErr, prometheusHash(scope[c].ClusterSummary.Spec,
                                                       content, apiErr))>>]
    /\ UNCHANGED <<store, content, ReferenceMap, ClusterSummaryMap, Mux, queue,
                   pending, pc, randoms, budget>>

NextPrometheusHash == \E c \in ClusterSummaries : CallPrometheusHash(c)

SpecPrometheusHash == InitPrometheusHash /\ [][NextPrometheusHash]_vars


(* ------------------------------------------------------------------ *)
(* A Set on its own: insert and erase in any order                      *)
(* ------------------------------------------------------------------ *)

\* number of operations applied to the Set
MaxOps == 4

\* an operation on the Set as the history remembers it
SetOp(op, e) == [op |-> op, e |-> e]

\* s := &Set{} held as ClusterSummaryMap["cs1"]; the log of cs1 is the
\* history of the operations applied to it
InitSet ==
    /\ store = [c \in ClusterSummaries |-> NoObject]
    /\ content = [o \in Objects |-> 1]
    /\ ReferenceMap = << >>
    /\ ClusterSummaryMap = [c \in {"cs1"} |-> {}]
    /\ Mux = ""
    /\ queue = {}
    /\ pending = {}
    /\ pc = [c \in ClusterSummaries |-> "idle"]
    /\ scope = [c \in ClusterSummaries |-> NoScope]
    /\ randoms = 0
    /\ budget = [edits |-> 0, faults |-> 0, deletes |-> 0]

\* the Set becomes s after operation op
SetChanged(s, op) ==
    /\ Len(scope["cs1"].log) < MaxOps
    /\ ClusterSummaryMap' = [ClusterSummaryMap EXCEPT !["cs1"] = s]
    /\ scope' = [scope EXCEPT !["cs1"].log = Append(@, op)]
    /\ UNCHANGED <<store, content, ReferenceMap, Mux, queue, pending, pc,
                   randoms, budget>>

SetInsert(e) == SetChanged(insert(ClusterSummaryMap["cs1"], e), SetOp("insert", e))

SetErase(e) == SetChanged(erase(ClusterSummaryMap["cs1"], e), SetOp("erase", e))

NextSet == \E e \in Entries : SetInsert(e) \/ SetErase(e)

SpecSet == InitSet /\ [][NextSet]_vars

(* ------------------------------------------------------------------ *)
(* The prometheus feature handler: the package function deployPrometheus *)
(* (named deployPrometheusHandler here, the reconciler method of the     *)
(* same name being deployPrometheus above)                              *)
(* ------------------------------------------------------------------ *)

\* most calls to the workload cluster that fail in one run of the handler
MaxStepFailures == 2

PrometheusInstallationModeKubeStateMetrics == "KubeStateMetrics"

PrometheusInstallationModeKubePrometheus == "KubePrometheus"

\* a mode that is neither of the two the handler names
PrometheusInstallationModeCustom == "Custom"

InstallationModes ==
    { PrometheusInstallationModeKubeStateMetrics,
      PrometheusInstallationModeKubePrometheus,
      PrometheusInstallationModeCustom }

\* StorageClassName: nil, the empty string, a storage class
StorageClassNames == { Nil, <<"">>, <<"standard">> }

\* the calls of the handler that reach the API server of the management or
\* of the workload cluster, each of which can fail
HandlerCalls ==
    { "getClusterSummaryAndCAPIClusterClient",
      "isPrometheusOperatorReady",
      "createNamespace prometheus", "deployDoc PrometheusYAML",
      "deployDoc PrometheusClusterRole", "deployDoc PrometheusClusterRoleBinding",
      "deployDoc Prometheus", "deployDoc KSMServiceMonitor",
      "isKubeStateMetricsReady",
      "createNamespace kubestatemetrics", "deployDoc KubeStateMetricsYAML",
      "deployDoc KubePrometheusYAML",
      "getPrometheusInstance", "Update prometheusInstance" }

\* the verdicts on a deployment: the handler fails when it is not ready
ReadinessChecks == { "prometheus operator ready", "kube-state-metrics ready" }

\* what isDeploymentReady can answer: absent, present and not ready, ready
DeploymentStates ==
    { [present |-> FALSE, ready |-> FALSE],
      [present |-> TRUE,  ready |-> FALSE],
      [present |-> TRUE,  ready |-> TRUE] }

\* the workload cluster as one run of the handler finds it: the calls that
\* fail and the state of the two deployments
HandlerEnvs ==
    { [fail |-> f, operator |-> o, ksm |-> k] :
        f \in {x \in SUBSET HandlerCalls : Cardinality(x) <= MaxStepFailures},
        o \in DeploymentStates, k \in DeploymentStates }

\* the step did not succeed in env
StepFailed(env, step) ==
    \/ step \in env.fail
    \/ step = "prometheus operator ready" /\ ~env.operator.ready
    \/ step = "kube-state-metrics ready" /\ ~env.ksm.ready

\* one step of the handler: the error it returns and the step it ran
Run(env, step) ==
    [err |-> IF StepFailed(env, step) THEN step ELSE NoErr, ran |-> <<step>>]

\* a branch the handler does not take
Skip == [err |-> NoErr, ran |-> << >>]

\* a, and b after it unless a returned an error (if err != nil { return err })
Then(a, b) ==
    IF a.err # NoErr THEN a ELSE [err |-> b.err, ran |-> a.ran \o b.ran]

shouldInstallPrometheusOperator(cs) ==
    /\ cs.Spec.PrometheusConfiguration # Nil
    /\ cs.Spec.PrometheusConfiguration[1].InstallationMode
         # PrometheusInstallationModeKubePrometheus

shouldInstallKubeStateMetrics(cs) ==
    /\ cs.Spec.PrometheusConfiguration # Nil
    /\ cs.Spec.PrometheusConfiguration[1].InstallationMode
         = PrometheusInstallationModeKubeStateMetrics

shouldInstallKubePrometheusStack(cs) ==
    /\ cs.Spec.PrometheusConfiguration # Nil
    /\ cs.Spec.PrometheusConfiguration[1].InstallationMode
         = PrometheusInstallationModeKubePrometheus

deployPrometheusOperatorInWorklaodCluster(env) ==
    Then(Run(env, "createNamespace prometheus"), Run(env, "deployDoc PrometheusYAML"))

deployKubeStateMetricsInWorklaodCluster(env) ==
    Then(Run(env, "createNamespace kubestatemetrics"),
         Run(env, "deployDoc KubeStateMetricsYAML"))

deployKubePrometheusInWorklaodCluster(env) ==
    Then(Run(env, "createNamespace prometheus"), Run(env, "deployDoc KubePrometheusYAML"))

deployPrometheusOperator(env) ==
    Then(Run(env, "isPrometheusOperatorReady"),
    Then(IF ~env.operator.present
         THEN deployPrometheusOperatorInWorklaodCluster(env) ELSE Skip,
         Run(env, "prometheus operator ready")))

deployPrometheusClusterRole(env) ==
    Then(Run(env, "deployDoc PrometheusClusterRole"),
         Run(env, "deployDoc PrometheusClusterRoleBinding"))

\* variant: the three deployments at the head of deployKubeStateMetrics
\* return their error
deployKubeStateMetrics_returnsErr(env) ==
    Then(deployPrometheusClusterRole(env),
    Then(Run(env, "deployDoc Prometheus"),
    Then(Run(env, "deployDoc KSMServiceMonitor"),
    Then(Run(env, "isKubeStateMetricsReady"),
    Then(IF ~env.ksm.present
         THEN deployKubeStateMetricsInWorklaodCluster(env) ELSE Skip,
         Run(env, "kube-state-metrics ready"))))))

\* deployKubeStateMetrics: when the cluster role, the Prometheus instance or
\* the ServiceMonitor cannot be deployed the function returns nil at once
\* (if err := ...; err != nil { return nil }); the errors of what follows
\* are returned
deployKubeStateMetrics(env) ==
    LET role     == deployPrometheusClusterRole(env)
        instance == Run(env, "deployDoc Prometheus")
        monitor  == Run(env, "deployDoc KSMServiceMonitor")
        rest     == Then(Run(env, "isKubeStateMetricsReady"),
                    Then(IF ~env.ksm.present
                         THEN deployKubeStateMetricsInWorklaodCluster(env) ELSE Skip,
                         Run(env, "kube-state-metrics ready")))
    IN  IF role.err # NoErr
        THEN [err |-> NoErr, ran |-> role.ran]
        ELSE IF instance.err # NoErr
        THEN [err |-> NoErr, ran |-> role.ran \o instance.ran]
        ELSE IF monitor.err # NoErr
        THEN [err |-> NoErr, ran |-> role.ran \o instance.ran \o monitor.ran]
        ELSE [err |-> rest.err,
              ran |-> role.ran \o instance.ran \o monitor.ran \o rest.ran]

deployKubePrometheusStack(env) ==
    Then(Run(env, "isPrometheusOperatorReady"),
    Then(IF ~env.operator.present
         THEN deployKubePrometheusInWorklaodCluster(env) ELSE Skip,
         Run(env, "prometheus operator ready")))

addStorageConfig(cs, env) ==
    IF \/ cs.Spec.PrometheusConfiguration = Nil
       \/ cs.Spec.PrometheusConfiguration[1].StorageClassName = Nil
       \/ cs.Spec.PrometheusConfiguration[1].StorageClassName = <<"">>
    THEN Skip
    ELSE Then(Run(env, "getPrometheusInstance"), Run(env, "Update prometheusInstance"))

\* the deploy function of the prometheus feature, run on ClusterSummary cs
\* against env: its error and the steps it ran, in order
deployPrometheusHandler(cs, env) ==
    Then(Run(env, "getClusterSummaryAndCAPIClusterClient"),
    Then(IF shouldInstallPrometheusOperator(cs) THEN deployPrometheusOperator(env) ELSE Skip,
    Then(IF shouldInstallKubeStateMetrics(cs) THEN deployKubeStateMetrics(env) ELSE Skip,
    Then(IF shouldInstallKubePrometheusStack(cs) THEN deployKubePrometheusStack(env) ELSE Skip,
         addStorageConfig(cs, env)))))

\* a run of the handler as the scope remembers it
HandlerCall(env, r) ==
    [op |-> "deployPrometheus", env |-> env, err |-> r.err, ran |-> r.ran]

\* cs1 exists and declares prometheus in one of the installation modes,
\* with or without a storage class; a scope is open on it
InitDeployPrometheus ==
    /\ \E m \in InstallationModes, sc \in StorageClassNames :
         store = [c \in ClusterSummaries |->
                    IF c = "cs1"
                    THEN Created(ClusterFeatureSpec(<< >>, Nil,
                           <<[PolicyRefs |-> << >>, InstallationMode |-> m,
                              StorageClassName |-> sc]>>))
                    ELSE NoObject]
    /\ content = [o \in Objects |-> 1]
    /\ ReferenceMap = << >>
    /\ ClusterSummaryMap = << >>
    /\ Mux = ""
    /\ queue = {}
    /\ pending = {}
    /\ pc = [c \in ClusterSummaries |-> "idle"]
    /\ scope = [c \in ClusterSummaries |->
                  IF store[c].exists THEN NewClusterSummaryScope(store[c])
                  ELSE NoScope]
    /\ randoms = 0
    /\ budget = [edits |-> 0, faults |-> 0, deletes |-> 0]

\* deployFeature runs once for prometheus on the ClusterSummary of c as it
\* is stored, and the handler runs against some state of the workload cluster
CallDeployPrometheus(c) ==
    /\ scope[c].open
    /\ scope[c].log = << >>
    /\ \E env \in HandlerEnvs :
         LET r == deployPrometheusHandler(store[c], env)
             d == deployFeature(store[c],
                    [id |-> FeaturePrometheus, currentHash |-> "prometheusHash",
                     deploy |-> "deployPrometheus"],
                    content, {}, r.err)
         IN  scope' = [scope EXCEPT ![c].ClusterSummary = d.cs,
                                    ![c].bodyErr = d.err,
                                    ![c].log = <<HandlerCall(env, r)>>]
    /\ UNCHANGED <<store, content, ReferenceMap, ClusterSummaryMap, Mux, queue,
                   pending, pc, randoms, budget>>

NextDeployPrometheus == \E c \in ClusterSummaries : CallDeployPrometheus(c)

SpecDeployPrometheus == InitDeployPrometheus /\ [][NextDeployPrometheus]_vars

\* e is in ClusterSummaryMap[c] exactly when c is in ReferenceMap[e]
Bidirectional ==
    \A c \in ClusterSummaries, e \in Entries :
        (e \in SetAt(ClusterSummaryMap, c)) <=> (c \in SetAt(ReferenceMap, e))

\* the positions between Mux.Lock and Mux.Unlock
CriticalSection == {"insert", "erase", "assign"}

\* the reconciliation of c has just returned from updatesMaps
LeavesUpdatesMaps(c) == pc[c] = "assign" /\ pc'[c] = "deploy"

\* C1: starting from two empty maps, after every call of updatesMaps, for
\* every consumer c and entry e, e is in ClusterSummaryMap[c] if and only if
\* c is in ReferenceMap[e].
C1_BidirectionalAfterEveryCall ==
    [][(\E c \in ClusterSummaries : LeavesUpdatesMaps(c)) => Bidirectional']_vars

\* a call has returned and two consumers share an entry
C1_Witness ==
    \E c, d \in ClusterSummaries, e \in Entries :
        /\ c # d
        /\ pc[c] = "deploy"
        /\ Mux = ""
        /\ {c, d} \subseteq SetAt(ReferenceMap, e)
        /\ e \in SetAt(ClusterSummaryMap, c) \cap SetAt(ClusterSummaryMap, d)

\* C2: after updatesMaps for consumer c whose spec references exactly S,
\* ClusterSummaryMap[c] is S, c is in ReferenceMap[e] for every e of S and c
\* is in ReferenceMap[e] for no e of the previous ClusterSummaryMap[c] that
\* is not in S.
C2_ReplacesReferenceSet ==
    \A c \in ClusterSummaries :
        pc[c] = "deploy" =>
            LET S == getCurrentReferences(scope[c].ClusterSummary.Spec)
            IN  /\ c \in DOMAIN ClusterSummaryMap
                /\ SetAt(ClusterSummaryMap, c) = S
                /\ \A e \in S : c \in SetAt(ReferenceMap, e)
                /\ \A e \in scope[c].previous \ S : c \notin SetAt(ReferenceMap, e)

\* a call that kept one reference and dropped another
C2_Witness ==
    \E c \in ClusterSummaries :
        /\ pc[c] = "deploy"
        /\ SetAt(ClusterSummaryMap, c) \cap scope[c].previous # {}
        /\ scope[c].previous \ SetAt(ClusterSummaryMap, c) # {}

\* C3: at most one reconciliation is between Mux.Lock and Mux.Unlock, and
\* whenever the mutex is free the two maps mirror each other.
C3_MutexSerializesUpdates ==
    /\ Cardinality({c \in ClusterSummaries : pc[c] \in CriticalSection}) <= 1
    /\ Mux = "" => Bidirectional

\* one reconciliation is inside the critical section with the maps out of
\* step while another waits for the mutex
C3_Witness ==
    \E c, d \in ClusterSummaries :
        /\ c # d
        /\ pc[c] \in CriticalSection
        /\ pc[d] = "lock"
        /\ ~Bidirectional

\* C4: a reconciliation about to invoke the deploy functions (after
\* updatesMaps) or the undeploy functions (delete path) does not hold the
\* mutex, and the delete path never holds it.
C4_NoDeployUnderMutex ==
    \A c \in ClusterSummaries :
        (pc[c] \in {"deploy", "delete"} \/ scope[c].path = "delete") => Mux # c

\* updatesMaps has run and released the mutex, deploy is about to start
C4_Witness ==
    \E c \in ClusterSummaries :
        /\ pc[c] = "deploy"
        /\ getCurrentReferences(scope[c].ClusterSummary.Spec) # {}
        /\ c \in DOMAIN ClusterSummaryMap
        /\ Mux = ""

\* object o is referenced by the spec
Referenced(spec, o) ==
    \/ o[1] = WorkloadRole /\ \E i \in 1..Len(spec.WorkloadRoleRefs) :
          spec.WorkloadRoleRefs[i].Name = o[3]
    \/ /\ o[1] = ConfigMap
       /\ spec.KyvernoConfiguration # Nil
       /\ \E i \in 1..Len(spec.KyvernoConfiguration[1].PolicyRefs) :
             spec.KyvernoConfiguration[1].PolicyRefs[i] = Ref(o)
    \/ /\ o[1] = ConfigMap
       /\ spec.PrometheusConfiguration # Nil
       /\ \E i \in 1..Len(spec.PrometheusConfiguration[1].PolicyRefs) :
             spec.PrometheusConfiguration[1].PolicyRefs[i] = Ref(o)

\* a reconciliation of c is in flight and has not computed a feature hash:
\* it is before deploy, or it failed before updatesMaps and returns an error
InFlightBeforeHashes(c) ==
    \/ pc[c] \in {"normal", "lock", "insert", "erase", "assign", "deploy"}
    \/ /\ pc[c] \in {"close", "done"}
       /\ scope[c].path \in {"fetchError", "ownerError", "finalizerError"}
       /\ scope[c].reterr # NoErr

\* C5: at every moment (so whenever an object changes), for every object o
\* referenced by the spec of a ClusterSummary c that is not deleted, c is in
\* ReferenceMap[o], or a reconciliation of c is queued, or one is in flight
\* that has not yet computed its feature hashes.
C5_NoNotificationLost ==
    \A c \in ClusterSummaries, o \in Objects :
        (store[c].exists /\ ~store[c].DeletionTimestamp /\ Referenced(store[c].Spec, o))
        => \/ c \in consumersOf(ReferenceMap, o)
           \/ c \in queue
           \/ InFlightBeforeHashes(c)

\* an object changed while the only thing covering the change is the entry
\* of c in ReferenceMap
C5_Witness ==
    \E c \in ClusterSummaries, o \in Objects :
        /\ store[c].exists /\ ~store[c].DeletionTimestamp
        /\ Referenced(store[c].Spec, o)
        /\ o \in pending
        /\ pc[c] = "idle"
        /\ c \notin queue
        /\ c \in consumersOf(ReferenceMap, o)

\* the hash function of feature F
HashOfFeature(F, spec, objs) ==
    CASE F = FeatureRole -> workloadRoleHash(spec, objs, {})
      [] F = FeatureKyverno -> kyvernoHash(spec, objs, {})
      [] F = FeaturePrometheus -> prometheusHash(spec, objs, {})

\* the deploy (or undeploy) function of F was invoked in the pass of the log
Called(log, F) == \E i \in 1..Len(log) : log[i].id = F /\ log[i].called

\* the pass of the log reached F (deployFeature or undeployFeature ran for it)
Attempted(log, F) == \E i \in 1..Len(log) : log[i].id = F

\* the pass of the log ended F with an error
FailedIn(log, F) == \E i \in 1..Len(log) : log[i].id = F /\ log[i].err # NoErr

\* the reconciliation of c runs deploy in this step
DeployStep(c) == pc[c] = "deploy" /\ pc'[c] = "close"

\* C6: when F is Provisioned with stored hash h and the current hash of F
\* equals h, the reconciliation does not invoke the deploy function of F and
\* leaves F Provisioned.
C6_HashMatchSkipsDeploy ==
    [][\A c \in ClusterSummaries : DeployStep(c) =>
          \A F \in Features :
              LET cs == scope[c].ClusterSummary
                  fs == cs.Status.FeatureSummaries
              IN  (IsProvisioned(fs, F)
                   /\ HashOfFeature(F, cs.Spec, content).hash = StoredHash(fs, F))
                  => /\ ~Called(scope'[c].log, F)
                     /\ IsProvisioned(scope'[c].ClusterSummary.Status.FeatureSummaries, F)
                     /\ StoredHash(scope'[c].ClusterSummary.Status.FeatureSummaries, F)
                           = StoredHash(fs, F)]_vars

\* a pass went through deployFeature for a Provisioned feature without
\* invoking its deploy function
C6_Witness ==
    \E c \in ClusterSummaries, F \in Features :
        /\ pc[c] = "close"
        /\ scope[c].path = "normal"
        /\ Attempted(scope[c].log, F)
        /\ ~Called(scope[c].log, F)
        /\ ~FailedIn(scope[c].log, F)
        /\ IsProvisioned(scope[c].ClusterSummary.Status.FeatureSummaries, F)

\* feature F is declared by the spec
Declared(F, spec) ==
    \/ F = FeatureRole
    \/ F = FeatureKyverno /\ spec.KyvernoConfiguration # Nil
    \/ F = FeaturePrometheus /\ spec.PrometheusConfiguration # Nil

\* the reconciliation of c has run deploy and not yet closed its scope
AfterDeploy(c) == pc[c] = "close" /\ scope[c].path = "normal"

\* C7: in a non-delete pass every declared feature is attempted whatever
\* the features before it returned, and deploy returns an error if and only
\* if an attempted feature returned one.
C7_EveryFeatureAttempted ==
    \A c \in ClusterSummaries :
        AfterDeploy(c) =>
            /\ \A F \in Features :
                  Declared(F, scope[c].ClusterSummary.Spec) => Attempted(scope[c].log, F)
            /\ scope[c].bodyErr # NoErr <=> \E F \in Features : FailedIn(scope[c].log, F)

\* the first feature failed and a later feature was still deployed
C7_Witness ==
    \E c \in ClusterSummaries :
        /\ AfterDeploy(c)
        /\ FailedIn(scope[c].log, FeatureRole)
        /\ Called(scope[c].log, FeaturePrometheus)
        /\ ~FailedIn(scope[c].log, FeaturePrometheus)

\* F has status Failed and a failure message
RecordedFailed(fs, F) ==
    /\ IndexOfFeature(fs, F) # 0
    /\ fs[IndexOfFeature(fs, F)].Status = FeatureStatusFailed
    /\ fs[IndexOfFeature(fs, F)].FailureMessage # Nil

\* C8: when in one pass the deploy function of F1 fails and that of F2
\* succeeds, F1 ends Failed with a failure message, F2 ends Provisioned and
\* the pass reports failure (a requeue); and a feature that was Provisioned
\* and did not fail itself in the pass is still Provisioned after it.
C8_PartialFailureKeepsSiblings ==
    [][\A c \in ClusterSummaries : DeployStep(c) =>
          LET fs   == scope[c].ClusterSummary.Status.FeatureSummaries
              fs2  == scope'[c].ClusterSummary.Status.FeatureSummaries
              log2 == scope'[c].log
          IN  /\ \A F1, F2 \in Features :
                    (Called(log2, F1) /\ FailedIn(log2, F1)
                     /\ Called(log2, F2) /\ ~FailedIn(log2, F2))
                    => /\ RecordedFailed(fs2, F1)
                       /\ IsProvisioned(fs2, F2)
                       /\ scope'[c].result.Requeue
                       /\ scope'[c].bodyErr # NoErr
              /\ \A G \in Features :
                    (IsProvisioned(fs, G) /\ ~(Called(log2, G) /\ FailedIn(log2, G)))
                    => IsProvisioned(fs2, G)]_vars

\* a pass in which one feature failed, another was deployed and a third,
\* Provisioned before, was left alone
C8_Witness ==
    \E c \in ClusterSummaries, F1, F2 \in Features :
        /\ AfterDeploy(c)
        /\ Called(scope[c].log, F1) /\ FailedIn(scope[c].log, F1)
        /\ Called(scope[c].log, F2) /\ ~FailedIn(scope[c].log, F2)
        /\ RecordedFailed(scope[c].ClusterSummary.Status.FeatureSummaries, F1)
        /\ IsProvisioned(scope[c].ClusterSummary.Status.FeatureSummaries, F2)

\* the reconciliation of c took the delete path and has closed its scope
DeleteReturned(c) == pc[c] = "done" /\ scope[c].path = "delete"

\* the finalizer is still on the ClusterSummary, staged and stored
FinalizerRemains(c) ==
    /\ scope[c].ClusterSummary.Finalizers
    /\ store[c].exists
    /\ store[c].Finalizers

\* C9 (as stated): on the delete path, when undeploy returns an error the
\* finalizer remains and Reconcile returns a requeue after 20s with a nil
\* error.
C9_Original ==
    \A c \in ClusterSummaries :
        (DeleteReturned(c) /\ scope[c].bodyErr # NoErr)
        => /\ FinalizerRemains(c)
           /\ scope[c].result = Result(TRUE, deleteRequeueAfter)
           /\ scope[c].reterr = NoErr

\* C9: on the delete path the finalizer is removed in a pass only if
\* undeploy returned success in that pass; when undeploy returns an error
\* the finalizer remains, the result is a requeue after 20s, and the error
\* Reconcile returns is nil unless the deferred Close fails, in which case it
\* is the error of Close.
C9_FinalizerKeptUntilUndeployed ==
    \A c \in ClusterSummaries :
        DeleteReturned(c) =>
            /\ (~scope[c].ClusterSummary.Finalizers \/ ~store[c].exists)
                  => scope[c].bodyErr = NoErr
            /\ scope[c].bodyErr # NoErr
                  => /\ FinalizerRemains(c)
                     /\ scope[c].result = Result(TRUE, deleteRequeueAfter)
                     /\ scope[c].reterr = scope[c].closeErr

\* undeploy failed in a delete pass, the finalizer is kept and the pass asks
\* for a retry
C9_Witness ==
    \E c \in ClusterSummaries :
        /\ DeleteReturned(c)
        /\ scope[c].bodyErr # NoErr
        /\ FinalizerRemains(c)
        /\ scope[c].result = Result(TRUE, deleteRequeueAfter)
        /\ scope[c].closed = 1

\* number of invocations of the undeploy (or deploy) function of F in a pass
Invocations(log, F) ==
    Cardinality({i \in 1..Len(log) : log[i].id = F /\ log[i].called})

\* the reconciliation of c has run reconcileDelete and not yet closed its scope
AfterDelete(c) == pc[c] = "close" /\ scope[c].path = "delete"

\* C10 (as stated): in a delete pass of a ClusterSummary with a Provisioned
\* feature the undeploy function of that feature is invoked exactly once.
C10_Original ==
    \A c \in ClusterSummaries :
        AfterDelete(c) =>
            \A F \in Features :
                IsProvisioned(store[c].Status.FeatureSummaries, F)
                => Invocations(scope[c].log, F) = 1

\* C10: in a delete pass of a ClusterSummary with a Provisioned feature the
\* undeploy function of that feature is invoked exactly once when the
\* lookup of the CAPI Cluster succeeds, and not at all when the Cluster is
\* not found or its lookup fails.
C10_UndeployOncePerFeature ==
    \A c \in ClusterSummaries :
        AfterDelete(c) =>
            \A F \in Features :
                IsProvisioned(store[c].Status.FeatureSummaries, F)
                => Invocations(scope[c].log, F)
                      = IF scope[c].clusterGet = NoErr THEN 1 ELSE 0

\* a delete pass of a ClusterSummary with exactly one Provisioned feature
\* whose Cluster was found
C10_Witness ==
    \E c \in ClusterSummaries, F \in Features :
        /\ AfterDelete(c)
        /\ scope[c].clusterGet = NoErr
        /\ {G \in Features : IsProvisioned(store[c].Status.FeatureSummaries, G)} = {F}
        /\ Invocations(scope[c].log, F) = 1

\* no undeploy (or deploy) function was invoked in the pass of the log
NothingInvoked(log) == \A F \in Features : Invocations(log, F) = 0

\* C11 (as stated): in a delete pass whose Cluster lookup returns NotFound
\* no undeploy function is invoked, the finalizer is removed and Reconcile
\* returns no error and no requeue; any other lookup error keeps the
\* finalizer.
C11_Original ==
    \A c \in ClusterSummaries :
        DeleteReturned(c) =>
            /\ scope[c].clusterGet = "NotFound"
                  => /\ NothingInvoked(scope[c].log)
                     /\ ~scope[c].ClusterSummary.Finalizers
                     /\ scope[c].result = Result(FALSE, 0)
                     /\ scope[c].reterr = NoErr
            /\ scope[c].clusterGet = "error" => FinalizerRemains(c)

\* C11: in a delete pass whose Cluster lookup returns NotFound no undeploy
\* function is invoked, reconcileDelete removes the finalizer and returns an
\* empty result; Reconcile returns no error and the object is released
\* unless the deferred Close fails, in which case Reconcile returns the
\* error of Close and the stored finalizer stays.  Any other lookup error
\* is an undeploy failure: nothing is invoked and the finalizer is kept.
C11_AbsentClusterIsSuccess ==
    \A c \in ClusterSummaries :
        DeleteReturned(c) =>
            /\ scope[c].clusterGet = "NotFound"
                  => /\ NothingInvoked(scope[c].log)
                     /\ scope[c].bodyErr = NoErr
                     /\ ~scope[c].ClusterSummary.Finalizers
                     /\ scope[c].result = Result(FALSE, 0)
                     /\ scope[c].reterr = scope[c].closeErr
                     /\ scope[c].closeErr = NoErr <=> ~store[c].exists
            /\ scope[c].clusterGet = "error"
                  => /\ NothingInvoked(scope[c].log)
                     /\ scope[c].bodyErr # NoErr
                     /\ FinalizerRemains(c)

\* a delete pass found no Cluster, invoked nothing and released the object
C11_Witness ==
    \E c \in ClusterSummaries :
        /\ DeleteReturned(c)
        /\ scope[c].clusterGet = "NotFound"
        /\ scope[c].log = << >>
        /\ scope[c].reterr = NoErr
        /\ ~store[c].exists

\* the reconciliation of c takes a step
StepOf(c) == pc'[c] # pc[c]

\* the reconciliation of c holds a ClusterSummary whose deletion timestamp is set
ReconcilesDeleted(c) == scope[c].open /\ scope[c].ClusterSummary.DeletionTimestamp

\* C12: in a reconciliation of a ClusterSummary whose deletion timestamp is
\* set only reconcileDelete and the deferred Close run: no step of it adds
\* the finalizer, generates a policy prefix, touches the mutex or the two
\* maps, or is the step that invokes the deploy functions.
C12_DeletionTakesPrecedence ==
    [][\A c \in ClusterSummaries :
          (ReconcilesDeleted(c) /\ StepOf(c)) =>
              /\ pc[c] \in {"delete", "close", "done"}
              /\ scope[c].path = "delete"
              /\ UNCHANGED <<ReferenceMap, ClusterSummaryMap, Mux, randoms>>
              /\ store'[c].Finalizers => store[c].Finalizers
              /\ pc[c] # "done" =>
                    /\ scope'[c].ClusterSummary.Finalizers
                          => scope[c].ClusterSummary.Finalizers
                    /\ scope'[c].ClusterSummary.Status.PolicyPrefix
                          = scope[c].ClusterSummary.Status.PolicyPrefix]_vars

\* a delete pass has undeployed a feature of a ClusterSummary that is still
\* indexed with the references of its spec
C12_Witness ==
    \E c \in ClusterSummaries :
        /\ ReconcilesDeleted(c)
        /\ pc[c] = "close"
        /\ Called(scope[c].log, FeatureRole)
        /\ c \in DOMAIN ClusterSummaryMap
        /\ ClusterSummaryMap[c] = getCurrentReferences(scope[c].ClusterSummary.Spec)
        /\ ClusterSummaryMap[c] # {}

\* the stored ClusterSummary c is marked for deletion and still there
MarkedForDeletion(c) == store[c].exists /\ store[c].DeletionTimestamp

\* this step releases the stored ClusterSummary c (its finalizer is removed)
Released(c) == MarkedForDeletion(c) /\ ~store'[c].exists

\* C13: when the controller keeps working and undeploy eventually succeeds
\* (or the Cluster is eventually absent), a ClusterSummary marked for
\* deletion is eventually released; and the only step that releases it is
\* the Close of a delete pass whose undeploy returned no error.
C13_DeletionEventuallyCompletes ==
    /\ \A c \in ClusterSummaries : MarkedForDeletion(c) ~> ~store[c].exists
    /\ [][\A c \in ClusterSummaries :
             Released(c) => /\ pc[c] = "close"
                            /\ scope[c].path = "delete"
                            /\ scope[c].bodyErr = NoErr]_vars

\* a summary of the stored ClusterSummary records a failed undeploy
UndeployFailureStored(c) ==
    \E i \in 1..Len(store[c].Status.FeatureSummaries) :
        /\ store[c].Status.FeatureSummaries[i].Status = FeatureStatusFailed
        /\ store[c].Status.FeatureSummaries[i].FailureMessage # Nil
        /\ store[c].Status.FeatureSummaries[i].FailureReason = Nil

\* after a delete pass whose undeploy failed, a later pass undeployed every
\* feature and is about to release the ClusterSummary
C13_Witness ==
    \E c \in ClusterSummaries :
        /\ MarkedForDeletion(c)
        /\ UndeployFailureStored(c)
        /\ AfterDelete(c)
        /\ scope[c].clusterGet = NoErr
        /\ scope[c].bodyErr = NoErr
        /\ ~scope[c].ClusterSummary.Finalizers

\* F has status Failed with the failure message and reason of a deploy
DeployFailureRecorded(fs, F) ==
    /\ RecordedFailed(fs, F)
    /\ fs[IndexOfFeature(fs, F)].FailureReason # Nil

\* the hash of F could not be computed in the pass of the log
HashFailedIn(log, F) ==
    \E i \in 1..Len(log) : log[i].id = F /\ ~log[i].called /\ log[i].err # NoErr

\* C14: when the deploy function of F returns an error, the summary of F
\* becomes Failed with failure message and reason and keeps the hash it
\* held (which, for a feature that was Provisioned or had no summary, is
\* not the hash just computed); and a pass that finds F Failed with its
\* configuration declared invokes the deploy function of F again, unless the
\* hash of F cannot be computed.
C14_FailureKeepsHashAndRetries ==
    [][\A c \in ClusterSummaries : DeployStep(c) =>
          LET cs   == scope[c].ClusterSummary
              fs   == cs.Status.FeatureSummaries
              fs2  == scope'[c].ClusterSummary.Status.FeatureSummaries
              log2 == scope'[c].log
          IN  \A F \in Features :
                /\ (Called(log2, F) /\ FailedIn(log2, F))
                   => /\ DeployFailureRecorded(fs2, F)
                      /\ StoredHash(fs2, F) = StoredHash(fs, F)
                      /\ (IsProvisioned(fs, F) \/ IndexOfFeature(fs, F) = 0)
                            => StoredHash(fs2, F) # HashOfFeature(F, cs.Spec, content).hash
                /\ (DeployFailureRecorded(fs, F) /\ Declared(F, cs.Spec))
                   => Called(log2, F) \/ HashFailedIn(log2, F)]_vars

\* the failure of a deploy was written back and a later pass invoked the
\* deploy function of the feature again
C14_Witness ==
    \E c \in ClusterSummaries, F \in Features :
        /\ AfterDeploy(c)
        /\ store[c].exists
        /\ DeployFailureRecorded(store[c].Status.FeatureSummaries, F)
        /\ StoredHash(store[c].Status.FeatureSummaries, F)
              # HashOfFeature(F, scope[c].ClusterSummary.Spec, content).hash
        /\ Called(scope[c].log, F)
        /\ ~FailedIn(scope[c].log, F)

\* C15: reconcileNormal never returns the error of a feature: when deploy
\* returns an error (some feature failed) it returns a requeue after
\* normalRequeueAfter (20s) with a nil error, and when every feature
\* succeeded it returns an empty result with a nil error.
C15_DeployFailureIsRetried ==
    \A c \in ClusterSummaries :
        AfterDeploy(c) =>
            /\ scope[c].reterr = NoErr
            /\ (\E F \in Features : FailedIn(scope[c].log, F))
                  => scope[c].result = Result(TRUE, normalRequeueAfter)
            /\ (\A F \in Features : ~FailedIn(scope[c].log, F))
                  => scope[c].result = Result(FALSE, 0)

\* the deploy function of a feature failed and reconcileNormal asks for a
\* retry without an error
C15_Witness ==
    \E c \in ClusterSummaries, F \in Features :
        /\ AfterDeploy(c)
        /\ Called(scope[c].log, F)
        /\ FailedIn(scope[c].log, F)
        /\ scope[c].result = Result(TRUE, normalRequeueAfter)
        /\ scope[c].reterr = NoErr

(* ------------------------------------------------------------------ *)
(* C16, C17: the status scope mutators                                  *)
(* ------------------------------------------------------------------ *)

\* the summaries staged in the scope of c
Staged(c) == scope[c].ClusterSummary.Status.FeatureSummaries

NoDuplicateFeatureID(fs) ==
    \A i, j \in 1..Len(fs) : fs[i].FeatureID = fs[j].FeatureID => i = j

\* the scope of c was created on a list without duplicates
StartedWithoutDuplicates(c) ==
    scope[c].open /\ NoDuplicateFeatureID(store[c].Status.FeatureSummaries)

\* SetFeatureStatus(F, Provisioning, h1) then SetFeatureStatus(F, Provisioned, h2)
\* on fs, which has no entry for F
Overwritten(fs, F, h1, h2) ==
    SetFeatureStatus(SetFeatureStatus(fs, F, FeatureStatusProvisioning, h1),
                     F, FeatureStatusProvisioned, h2)

EntriesOfFeature(fs, F) == {i \in 1..Len(fs) : fs[i].FeatureID = F}

\* C16: a scope created on a feature-summary list without duplicate
\* FeatureID holds, after any sequence of SetFeatureStatus, SetFailureMessage,
\* SetFailureReason and SetDeployedGroupVersionKind calls, at most one entry
\* per FeatureID; and SetFeatureStatus(F, Provisioning, h1) followed by
\* SetFeatureStatus(F, Provisioned, h2) on an empty list leaves exactly one
\* entry, for F, with status Provisioned and hash h2.
C16_OneEntryPerFeature ==
    \A c \in ClusterSummaries :
        StartedWithoutDuplicates(c) =>
            /\ NoDuplicateFeatureID(Staged(c))
            /\ \A F \in MutatorFeatures, h1 \in MutatorHashes, h2 \in MutatorHashes :
                 LET r == Overwritten(<< >>, F, h1, h2)
                 IN  /\ Len(r) = 1
                     /\ r[1].FeatureID = F
                     /\ r[1].Status = FeatureStatusProvisioned
                     /\ r[1].Hash = h2
            /\ \A F \in MutatorFeatures, h1 \in MutatorHashes, h2 \in MutatorHashes :
                 EntriesOfFeature(Staged(c), F) = {} =>
                     LET r == Overwritten(Staged(c), F, h1, h2)
                     IN  /\ Len(r) = Len(Staged(c)) + 1
                         /\ Cardinality(EntriesOfFeature(r, F)) = 1
                         /\ r[Len(r)].Status = FeatureStatusProvisioned
                         /\ r[Len(r)].Hash = h2

\* a scope created on the empty list now holds one entry per feature, each
\* written by SetFeatureStatus and by two other mutators after it
C16_Witness ==
    /\ store["cs1"].Status.FeatureSummaries = << >>
    /\ Len(Staged("cs1")) = 2
    /\ \A i \in 1..2 :
         /\ Staged("cs1")[i].Status = FeatureStatusProvisioned
         /\ Staged("cs1")[i].Hash = Sum(Render(2))
         /\ Staged("cs1")[i].FailureMessage # Nil
         /\ Staged("cs1")[i].DeployedGroupVersionKind # << >>
    /\ scope["cs1"].log[1].op = "SetFeatureStatus"

\* entry e carries the value of the call
Carries(e, call) ==
    /\ e.FeatureID = call.FeatureID
    /\ call.op = "SetFeatureStatus" =>
         e.Status = call.args[1] /\ e.Hash = call.args[2]
    /\ call.op = "SetFailureMessage" => e.FailureMessage = call.args[1]
    /\ call.op = "SetFailureReason" => e.FailureReason = call.args[1]
    /\ call.op = "SetDeployedGroupVersionKind" =>
         e.DeployedGroupVersionKind = call.args[1]

\* old becomes new by finding or creating the entry of the call
FoundOrCreated(old, new, call) ==
    LET matching == EntriesOfFeature(old, call.FeatureID)
    IN  IF matching = {}
        THEN /\ Len(new) = Len(old) + 1
             /\ \A i \in 1..Len(old) : new[i] = old[i]
             /\ Carries(new[Len(new)], call)
        ELSE LET first == CHOOSE i \in matching : \A j \in matching : i <= j
             IN  /\ Len(new) = Len(old)
                 /\ \A i \in 1..Len(old) : i # first => new[i] = old[i]
                 /\ Carries(new[first], call)

\* the step is a mutator call on the scope of c
MutatorStep(c) ==
    /\ scope[c].open /\ scope'[c].open
    /\ pc[c] = "idle" /\ pc'[c] = "idle"
    /\ scope'[c] # scope[c]

\* C17: each mutator finds or creates by FeatureID. Called for a FeatureID
\* without entry it appends exactly one entry carrying the FeatureID and the
\* given value and leaves every existing entry unchanged; called for a
\* FeatureID with an entry it changes only the first matching entry, the
\* length and every other entry staying as they were.
C17_FindOrCreate ==
    [][\A c \in ClusterSummaries :
          MutatorStep(c) => FoundOrCreated(Staged(c), Staged(c)', scope'[c].log[1])]_vars

\* a mutator has just changed the first of two Kyverno entries, a Role
\* entry having been created after them
C17_Witness ==
    /\ Len(Staged("cs1")) = 3
    /\ Staged("cs1")[1].FeatureID = FeatureKyverno
    /\ Staged("cs1")[2] = store["cs1"].Status.FeatureSummaries[2]
    /\ Staged("cs1")[1].FailureMessage = failedToDeploy
    /\ Staged("cs1")[3].FeatureID = FeatureRole
    /\ scope["cs1"].log[1] = Call("SetFailureMessage", FeatureKyverno, <<failedToDeploy>>)

(* ------------------------------------------------------------------ *)
(* C18, C19: the deferred Close                                         *)
(* ------------------------------------------------------------------ *)

\* Reconcile of c has returned
Returned(c) == pc[c] = "done"

\* the ways out of Reconcile before the scope is created
EarlyPaths == {"notFound", "fetchError", "ownerError"}

\* the ways out of Reconcile once the scope is created
ScopedPaths == {"delete", "normal", "finalizerError"}

\* the step changes the ClusterSummary staged in the scope of c
StatusMutation(c) ==
    /\ scope[c].open /\ scope'[c].open
    /\ scope'[c].ClusterSummary # scope[c].ClusterSummary

\* Reconcile of c starts and returns before it creates a scope
EarlyReturn(c) == pc[c] = "idle" /\ pc'[c] = "done" /\ ~scope'[c].open

\* C18: a Reconcile that created its scope has invoked Close exactly once
\* when it returns, whichever way it returns (delete success, delete retry,
\* finalizer failure, deploy failure, deploy success), and no status is
\* staged after Close; a Reconcile that returns before the scope is created
\* (ClusterSummary not found, fetch error, owner lookup error) does not
\* invoke Close and writes nothing.
C18_CloseExactlyOnce ==
    /\ [](\A c \in ClusterSummaries :
            /\ Returned(c) /\ scope[c].open =>
                 scope[c].closed = 1 /\ scope[c].path \in ScopedPaths
            /\ Returned(c) /\ ~scope[c].open =>
                 scope[c].closed = 0 /\ scope[c].path \in EarlyPaths
            /\ ~Returned(c) => scope[c].closed = 0)
    /\ [][\A c \in ClusterSummaries :
            /\ StatusMutation(c) => scope[c].closed = 0 /\ scope'[c].closed = 0
            /\ EarlyReturn(c) => store' = store]_vars

\* a deploy failure has been recorded and the one Close of the pass wrote it
C18_Witness ==
    /\ Returned("cs1")
    /\ scope["cs1"].path = "normal"
    /\ scope["cs1"].closed = 1
    /\ scope["cs1"].closeErr = NoErr
    /\ scope["cs1"].result = Result(TRUE, normalRequeueAfter)
    /\ \E i \in 1..Len(store["cs1"].Status.FeatureSummaries) :
         store["cs1"].Status.FeatureSummaries[i].Status = FeatureStatusFailed

\* the deferred function of Reconcile of c runs in this step
CloseStep(c) == pc[c] = "close" /\ pc'[c] = "done"

\* C19: when Close returns an error Reconcile returns that error, whatever
\* the body returned (nil, a requeue result, or an error of its own); when
\* Close succeeds the error of the body is returned unchanged. The result
\* of the body is returned as it is in both cases.
C19_CloseErrorPropagates ==
    [][\A c \in ClusterSummaries :
          CloseStep(c) =>
              /\ scope'[c].closeErr # NoErr => scope'[c].reterr = scope'[c].closeErr
              /\ scope'[c].closeErr = NoErr =>
                   /\ scope'[c].reterr = scope[c].reterr
                   /\ store'[c] = Patched(store[c], scope[c].ClusterSummary)
              /\ scope'[c].result = scope[c].result]_vars

\* deploy failed, so the body returned a requeue result and a nil error,
\* and Close failed: Reconcile returns the error of Close
C19_Witness ==
    /\ Returned("cs1")
    /\ scope["cs1"].path = "normal"
    /\ scope["cs1"].bodyErr # NoErr
    /\ scope["cs1"].result = Result(TRUE, normalRequeueAfter)
    /\ scope["cs1"].closeErr = "failed"
    /\ scope["cs1"].reterr = "failed"

(* ------------------------------------------------------------------ *)
(* C20: the ClusterSummary is gone when Reconcile fetches it            *)
(* ------------------------------------------------------------------ *)

\* Reconcile of c starts in this step
FetchStep(c) == pc[c] = "idle" /\ pc'[c] # "idle"

\* Reconcile of c did nothing and asks for nothing
TerminalNoOp(c) ==
    /\ EarlyReturn(c)
    /\ scope'[c].result = Result(FALSE, 0)
    /\ scope'[c].reterr = NoErr
    /\ ~Requeues(scope'[c].result, scope'[c].reterr)
    /\ UNCHANGED <<store, ReferenceMap, ClusterSummaryMap>>

\* Reconcile of c returned the error of r.Get
FetchErrorReturned(c) ==
    /\ EarlyReturn(c)
    /\ scope'[c].reterr = "failed"
    /\ UNCHANGED <<store, ReferenceMap, ClusterSummaryMap>>

\* C20: when the ClusterSummary does not exist as Reconcile fetches it,
\* the fetch either answers NotFound, and Reconcile returns an empty result
\* and a nil error, asks for no requeue and changes neither ReferenceMap,
\* ClusterSummaryMap nor any stored status, or it fails otherwise, and
\* Reconcile returns that error. A pass that ends as not found is requeued
\* by nothing when it returns.
C20_NotFoundIsTerminalNoOp ==
    [][\A c \in ClusterSummaries :
          /\ (FetchStep(c) /\ ~store[c].exists) =>
                \/ scope'[c].path = "notFound" /\ TerminalNoOp(c)
                \/ scope'[c].path = "fetchError" /\ FetchErrorReturned(c)
          /\ (FetchStep(c) /\ scope'[c].path = "notFound") =>
                ~store[c].exists /\ TerminalNoOp(c)
          /\ (FetchStep(c) /\ scope'[c].path = "fetchError") => FetchErrorReturned(c)
          /\ (Returned(c) /\ scope[c].path = "notFound" /\ pc'[c] = "idle") =>
                UNCHANGED <<queue, store, ReferenceMap, ClusterSummaryMap>>]_vars

\* the ClusterSummary was deployed, deleted and released; the pass queued
\* by its last write finds nothing and leaves the index as it is
C20_Witness ==
    /\ Returned("cs1")
    /\ scope["cs1"].path = "notFound"
    /\ ~store["cs1"].exists
    /\ scope["cs1"].reterr = NoErr
    /\ "cs1" \notin queue
    /\ \E e \in DOMAIN ClusterSummaryMap : ClusterSummaryMap[e] # {}

(* ------------------------------------------------------------------ *)
(* C21: the owner is gone when Reconcile looks it up                    *)
(* ------------------------------------------------------------------ *)

\* Reconcile of c starts in this step and does not find the owner
OwnerVanished(c) == FetchStep(c) /\ scope'[c].ownerGet = "NotFound"

\* C21 (as stated): when the owner ClusterFeature of the ClusterSummary
\* has vanished as Reconcile looks it up, Reconcile returns a nil error and
\* deploys, undeploys and writes nothing.
C21_Original ==
    [][\A c \in ClusterSummaries :
          OwnerVanished(c) =>
              /\ EarlyReturn(c)
              /\ scope'[c].reterr = NoErr
              /\ UNCHANGED <<store, ReferenceMap, ClusterSummaryMap>>]_vars

(* ------------------------------------------------------------------ *)
(* C22: deploy of a feature that is not configured                      *)
(* ------------------------------------------------------------------ *)

\* the features deploy runs only when they are configured
OptionalFeatures == {FeatureKyverno, FeaturePrometheus}

\* the summaries of feature F, in list order
SummariesOf(fs, F) == SelectSeq(fs, LAMBDA e : e.FeatureID = F)

\* C22: when KyvernoConfiguration (resp. PrometheusConfiguration) is nil,
\* deploy reaches neither the hash nor the deploy function of the feature,
\* leaves the summary of the feature as it is, and returns an error only
\* if another feature returned one.
C22_UnconfiguredFeatureIsNoOp ==
    [][\A c \in ClusterSummaries : \A F \in OptionalFeatures :
          (DeployStep(c) /\ ~Declared(F, scope[c].ClusterSummary.Spec)) =>
              /\ ~Attempted(scope'[c].log, F)
              /\ ~Called(scope'[c].log, F)
              /\ SummariesOf(scope'[c].ClusterSummary.Status.FeatureSummaries, F)
                   = SummariesOf(scope[c].ClusterSummary.Status.FeatureSummaries, F)
              /\ scope'[c].bodyErr # NoErr =>
                   \E G \in Features \ {F} : FailedIn(scope'[c].log, G)
              /\ (\A G \in Features \ {F} : ~FailedIn(scope'[c].log, G)) =>
                   /\ scope'[c].reterr = NoErr
                   /\ scope'[c].result = Result(FALSE, 0)]_vars

\* neither kyverno nor prometheus is configured: deploy ran the role
\* feature alone and the pass succeeded
C22_Witness ==
    /\ AfterDeploy("cs1")
    /\ scope["cs1"].ClusterSummary.Spec.KyvernoConfiguration = Nil
    /\ scope["cs1"].ClusterSummary.Spec.PrometheusConfiguration = Nil
    /\ Len(scope["cs1"].log) = 1
    /\ scope["cs1"].log[1].id = FeatureRole
    /\ scope["cs1"].bodyErr = NoErr
    /\ scope["cs1"].result = Result(FALSE, 0)

(* ------------------------------------------------------------------ *)
(* C23, C24: prometheusHash                                             *)
(* ------------------------------------------------------------------ *)

\* prometheusHash has been called on the scope of c
HashCalled(c) == scope[c].open /\ scope[c].log # << >>

ObjectOf(ref) == <<ConfigMap, ref.Namespace, ref.Name>>

\* the references of refs whose ConfigMap exists, in the order of refs
PresentRefs(refs) == SelectSeq(refs, LAMBDA r : content[ObjectOf(r)] # 0)

\* the rendered data of the ConfigMaps of refs, one after the other
RECURSIVE Rendered(_)
Rendered(refs) ==
    IF refs = << >> THEN << >>
    ELSE Render(content[ObjectOf(Head(refs))]) \o Rendered(Tail(refs))

\* C23: in prometheusHash a referenced ConfigMap that does not exist is not
\* an error and adds nothing to the hash: the result is the hash over the
\* same ordered references without the missing ones. A lookup that fails
\* with another error makes prometheusHash return the error and no hash.
C23_MissingReferenceIsSkipped ==
    \A c \in ClusterSummaries :
        (HashCalled(c) /\ scope[c].ClusterSummary.Spec.PrometheusConfiguration # Nil) =>
            LET call == scope[c].log[1]
                spec == scope[c].ClusterSummary.Spec
                refs == spec.PrometheusConfiguration[1].PolicyRefs
                kept == [spec EXCEPT !.PrometheusConfiguration =
                           <<[PolicyRefs |-> PresentRefs(refs)]>>]
            IN  IF \E i \in 1..Len(refs) : ObjectOf(refs[i]) \in call.apiErr
                THEN call.err # NoErr /\ call.hash = Nil
                ELSE /\ call.err = NoErr
                     /\ call.hash = Sum(Rendered(PresentRefs(refs)))
                     /\ call.hash = prometheusHash(kept, content, {}).hash

\* cm2 then cm1 are referenced and cm2 does not exist: the hash is the one
\* of cm1 alone
C23_Witness ==
    /\ HashCalled("cs1")
    /\ scope["cs1"].ClusterSummary.Spec.PrometheusConfiguration
         = <<[PolicyRefs |-> <<Ref(CmObj2), Ref(CmObj1)>>]>>
    /\ content[CmObj2] = 0
    /\ content[CmObj1] = 2
    /\ scope["cs1"].log[1].err = NoErr
    /\ scope["cs1"].log[1].hash = Sum(Render(2))

\* C24: when PrometheusConfiguration is nil prometheusHash returns the
\* digest of zero bytes, with no error and whatever the lookups of the
\* referenced objects would answer.
C24_NoConfigurationGivesEmptyHash ==
    \A c \in ClusterSummaries :
        (HashCalled(c) /\ scope[c].ClusterSummary.Spec.PrometheusConfiguration = Nil) =>
            /\ scope[c].log[1].err = NoErr
            /\ scope[c].log[1].hash = Sum(<< >>)
            /\ scope[c].log[1].hash # Nil

\* nothing is configured and every lookup would fail: the empty digest
C24_Witness ==
    /\ HashCalled("cs1")
    /\ scope["cs1"].ClusterSummary.Spec.PrometheusConfiguration = Nil
    /\ scope["cs1"].log[1].apiErr = {CmObj1, CmObj2}
    /\ scope["cs1"].log[1].hash = Sum(<< >>)

(* ------------------------------------------------------------------ *)
(* C25: the policy name prefix                                          *)
(* ------------------------------------------------------------------ *)

\* the prefix staged in the scope of c
StagedPrefix(c) == scope[c].ClusterSummary.Status.PolicyPrefix

\* the prefix written in the stored ClusterSummary c
PersistedPrefix(c) == store[c].Status.PolicyPrefix

\* C25: a pass sets Status.PolicyPrefix only when it is empty, to a newly
\* generated prefix, and once a prefix that is not empty has been persisted
\* no reconciliation of that ClusterSummary changes it.
C25_PrefixGeneratedOnce ==
    [][\A c \in ClusterSummaries :
          /\ (scope[c].open /\ scope'[c].open /\ StagedPrefix(c)' # StagedPrefix(c)) =>
                /\ StagedPrefix(c) = EmptyPrefix
                /\ StagedPrefix(c)' = randoms'
                /\ randoms' = randoms + 1
          /\ (store[c].exists /\ store'[c].exists /\ PersistedPrefix(c) # EmptyPrefix) =>
                PersistedPrefix(c)' = PersistedPrefix(c)
          /\ (store[c].exists /\ PersistedPrefix(c) # EmptyPrefix /\ scope'[c].open) =>
                StagedPrefix(c)' = PersistedPrefix(c)]_vars

\* a later pass has gone through generatePolicyNamePrefix and deploy with
\* the prefix an earlier pass persisted
C25_Witness ==
    /\ AfterDeploy("cs1")
    /\ store["cs1"].exists
    /\ PersistedPrefix("cs1") # EmptyPrefix
    /\ StagedPrefix("cs1") = PersistedPrefix("cs1")
    /\ randoms = 1

(* ------------------------------------------------------------------ *)
(* C26: the Set                                                         *)
(* ------------------------------------------------------------------ *)

\* the Set under test and the history of its operations
TheSet == ClusterSummaryMap["cs1"]

History == scope["cs1"].log

\* the last operation of the history on e is an insert
LastIsInsert(h, e) ==
    \E i \in 1..Len(h) :
        /\ h[i] = SetOp("insert", e)
        /\ \A j \in (i + 1)..Len(h) : h[j].e # e

\* C26: after any sequence of insert and erase on an empty Set, has(e) is
\* true exactly when the last operation on e was an insert, items returns
\* exactly those elements and their number is the number of distinct
\* elements present; the insert of a new element raises that number by
\* one, the erase of a present element lowers it by one, and the insert of
\* a present or the erase of an absent element leaves it.
C26_SetIsASet ==
    /\ [](/\ \A e \in Entries : has(TheSet, e) <=> LastIsInsert(History, e)
          /\ items(TheSet) = {e \in Entries : LastIsInsert(History, e)}
          /\ Cardinality(items(TheSet))
               = Cardinality({e \in Entries : LastIsInsert(History, e)}))
    /\ [][LET op == History'[Len(History')]
              n  == Cardinality(items(TheSet))
              n2 == Cardinality(items(TheSet'))
          IN  /\ Len(History') = Len(History) + 1
              /\ op.op = "insert" =>
                   n2 = IF has(TheSet, op.e) THEN n ELSE n + 1
              /\ op.op = "erase" =>
                   n2 = IF has(TheSet, op.e) THEN n - 1 ELSE n]_vars

\* an element was inserted twice and erased, another inserted and kept
C26_Witness ==
    /\ Len(History) = 4
    /\ History[1] = History[2]
    /\ History[1].op = "insert"
    /\ History[3] = SetOp("erase", History[1].e)
    /\ History[4].op = "insert"
    /\ History[4].e # History[1].e
    /\ items(TheSet) = {History[4].e}

(* ------------------------------------------------------------------ *)
(* C27: every non-delete pass updates the index                         *)
(* ------------------------------------------------------------------ *)

\* the entries of the objects spec references
EntriesReferenced(spec) == {EntryOf(o) : o \in {x \in Objects : Referenced(spec, x)}}

\* the index holds for c the references of the spec staged in its scope
IndexedFromSpec(c) ==
    /\ c \in DOMAIN ClusterSummaryMap
    /\ ClusterSummaryMap[c] = EntriesReferenced(scope[c].ClusterSummary.Spec)
    /\ \A e \in EntriesReferenced(scope[c].ClusterSummary.Spec) :
         c \in SetAt(ReferenceMap, e)

\* the pass of c is past updatesMaps
PastUpdatesMaps(c) == pc[c] \in {"deploy", "close", "done"} /\ scope[c].path = "normal"

\* addFinalizer fails in this step of the pass of c
FinalizerFails(c) == pc[c] = "normal" /\ scope'[c].path = "finalizerError"

FinalizerPersisted(c) ==
    /\ store[c].exists
    /\ store[c].Finalizers
    /\ scope[c].ClusterSummary.Finalizers

\* the pass of c is in updatesMaps, in deploy, or past them
PastAddFinalizer(c) ==
    \/ pc[c] \in {"lock", "insert", "erase", "assign", "deploy"}
    \/ pc[c] \in {"close", "done"} /\ scope[c].path = "normal"

\* the step is one of the pass of c that updates the index or deploys
IndexOrDeployStep(c) ==
    \/ pc[c] \in {"insert", "erase", "assign"} /\ pc'[c] # pc[c]
    \/ DeployStep(c)

UpdatesMapsStep(c) ==
    pc[c] \in {"lock", "insert", "erase", "assign"} /\ pc'[c] # pc[c]

\* the step leaves what the index holds about consumer d
MembershipKept(d) ==
    /\ \A e \in Entries :
         d \in SetAt(ReferenceMap, e) <=> d \in SetAt(ReferenceMap', e)
    /\ d \in DOMAIN ClusterSummaryMap <=> d \in DOMAIN ClusterSummaryMap'
    /\ SetAt(ClusterSummaryMap, d) = SetAt(ClusterSummaryMap', d)

\* C29: updatesMaps for consumer c changes the membership of c alone: for
\* every other consumer d and every entry e, whether d is in
\* ReferenceMap[e] and the value of ClusterSummaryMap[d] are after each of
\* its steps what they were before.
C29_OtherConsumersUntouched ==
    [][\A c \in ClusterSummaries : \A d \in ClusterSummaries \ {c} :
          UpdatesMapsStep(c) => MembershipKept(d)]_vars

\* cs1 has dropped a reference that cs2 still holds and shares another
\* with it: updatesMaps of cs1 has just run
C29_Witness ==
    /\ pc["cs1"] = "deploy"
    /\ "cs2" \in DOMAIN ClusterSummaryMap
    /\ \E e \in scope["cs1"].toBeRemoved :
         /\ "cs2" \in SetAt(ReferenceMap, e)
         /\ "cs1" \notin SetAt(ReferenceMap, e)
    /\ \E e \in Entries : {"cs1", "cs2"} \subseteq SetAt(ReferenceMap, e)

\* the step belongs to a pass of c on a ClusterSummary fetched with a
\* deletion timestamp
DeletePassStep(c) ==
    /\ scope[c].open \/ scope'[c].open
    /\ IF scope[c].open THEN scope[c].ClusterSummary.DeletionTimestamp
       ELSE scope'[c].ClusterSummary.DeletionTimestamp
    /\ pc'[c] # pc[c]

\* C30: a delete reconciliation of c, the one that removes the finalizer
\* included, changes neither ReferenceMap nor ClusterSummaryMap: every
\* entry that held c before still holds it.
C30_DeleteKeepsIndex ==
    [][\A c \in ClusterSummaries :
          DeletePassStep(c) =>
              /\ UNCHANGED <<ReferenceMap, ClusterSummaryMap>>
              /\ MembershipKept(c)]_vars

\* cs1 was indexed, then its spec was edited and it was deleted and
\* released: it is still a consumer of the references of its old spec
C30_Witness ==
    /\ Returned("cs1")
    /\ scope["cs1"].path = "delete"
    /\ ~store["cs1"].exists
    /\ "cs1" \in DOMAIN ClusterSummaryMap
    /\ ClusterSummaryMap["cs1"] # {}
    /\ ClusterSummaryMap["cs1"] # EntriesReferenced(scope["cs1"].ClusterSummary.Spec)
    /\ \A e \in ClusterSummaryMap["cs1"] : "cs1" \in SetAt(ReferenceMap, e)

(* ------------------------------------------------------------------ *)
(* C31: a feature whose configuration was removed from the spec         *)
(* ------------------------------------------------------------------ *)

\* the step belongs to a non-delete pass of c that holds its scope
NormalPassStep(c) ==
    /\ scope[c].open
    /\ scope[c].path # "delete"
    /\ StepOf(c)

\* the summaries of feature F the API server holds for c
StoredSummariesOf(c, F) == SummariesOf(store[c].Status.FeatureSummaries, F)

\* the summaries of feature F staged in the scope of c
StagedSummariesOf(c, F) == SummariesOf(scope[c].ClusterSummary.Status.FeatureSummaries, F)

\* C31: in a non-delete pass that sees no KyvernoConfiguration (resp. no
\* PrometheusConfiguration), no step, the write-back of Close included,
\* changes the summary of the feature, staged or stored: what an earlier
\* pass recorded (status, hash, failure fields) stays as it was, and
\* neither the deploy nor the undeploy function of the feature is invoked.
C31_RemovedFeatureKeepsItsSummary ==
    [][\A c \in ClusterSummaries : \A F \in OptionalFeatures :
          (NormalPassStep(c) /\ ~Declared(F, scope[c].ClusterSummary.Spec)) =>
              /\ scope'[c].open =>
                   SummariesOf(scope'[c].ClusterSummary.Status.FeatureSummaries, F)
                     = StagedSummariesOf(c, F)
              /\ SummariesOf(store'[c].Status.FeatureSummaries, F) = StoredSummariesOf(c, F)
              /\ store[c].exists => StoredSummariesOf(c, F) = StagedSummariesOf(c, F)
              /\ ~Called(scope'[c].log, F)
              /\ ~Attempted(scope'[c].log, F)]_vars

\* kyverno was provisioned by an earlier pass, then its configuration was
\* removed from the spec: a later non-delete pass has run deploy and written
\* back, and the ClusterSummary still reports kyverno Provisioned with the
\* hash of the removed configuration
C31_Witness ==
    /\ Returned("cs1")
    /\ scope["cs1"].path = "normal"
    /\ scope["cs1"].closed = 1
    /\ scope["cs1"].closeErr = NoErr
    /\ scope["cs1"].ClusterSummary.Spec.KyvernoConfiguration = Nil
    /\ store["cs1"].exists
    /\ store["cs1"].Spec.KyvernoConfiguration = Nil
    /\ IsProvisioned(store["cs1"].Status.FeatureSummaries, FeatureKyverno)
    /\ StoredHash(store["cs1"].Status.FeatureSummaries, FeatureKyverno) # EmptyHash
    /\ ~Attempted(scope["cs1"].log, FeatureKyverno)

(* ------------------------------------------------------------------ *)
(* C32: errors of the prometheus handler                                *)
(* ------------------------------------------------------------------ *)

\* the handler has run on the scope of c
HandlerCalled(c) ==
    /\ scope[c].open
    /\ scope[c].log # << >>
    /\ scope[c].log[1].op = "deployPrometheus"

\* the steps the run of call went through that did not succeed
FailedSteps(call) ==
    {call.ran[i] : i \in {j \in 1..Len(call.ran) : StepFailed(call.env, call.ran[j])}}

\* the steps whose error deployKubeStateMetrics does not return
Unreported ==
    { "deployDoc PrometheusClusterRole", "deployDoc PrometheusClusterRoleBinding",
      "deployDoc Prometheus", "deployDoc KSMServiceMonitor" }

\* C32 as stated: a run of the prometheus handler in which a step failed
\* returns an error, and the feature is not Provisioned by it.
C32_Original ==
    \A c \in ClusterSummaries :
        (HandlerCalled(c) /\ FailedSteps(scope[c].log[1]) # {}) =>
            /\ scope[c].log[1].err # NoErr
            /\ ~IsProvisioned(scope[c].ClusterSummary.Status.FeatureSummaries,
                              FeaturePrometheus)

\* what the handler does guarantee: a run that returns no error although a
\* step failed is in kube-state-metrics mode and failed at the cluster role,
\* the role binding, the Prometheus instance or the ServiceMonitor, none of
\* which was followed by another step of deployKubeStateMetrics; every
\* other failure is returned and leaves the feature Failed.
C32_OnlyKubeStateMetricsHeadIsUnreported ==
    \A c \in ClusterSummaries :
        (HandlerCalled(c) /\ FailedSteps(scope[c].log[1]) # {}) =>
            LET call == scope[c].log[1]
                fs   == scope[c].ClusterSummary.Status.FeatureSummaries
            IN  IF call.err = NoErr
                THEN /\ shouldInstallKubeStateMetrics(scope[c].ClusterSummary)
                     /\ FailedSteps(call) \subseteq Unreported
                     /\ Cardinality(FailedSteps(call)) = 1
                     /\ "isKubeStateMetricsReady" \notin SeqRange(call.ran)
                     /\ IsProvisioned(fs, FeaturePrometheus)
                ELSE /\ call.err \in FailedSteps(call)
                     /\ ~IsProvisioned(fs, FeaturePrometheus)
                     /\ fs[IndexOfFeature(fs, FeaturePrometheus)].Status = FeatureStatusFailed

\* kube-state-metrics mode, the cluster role cannot be deployed: the handler
\* returns nil without deploying the Prometheus instance, the
\* ServiceMonitor or kube-state-metrics, and prometheus is Provisioned
C32_Witness ==
    /\ HandlerCalled("cs1")
    /\ shouldInstallKubeStateMetrics(scope["cs1"].ClusterSummary)
    /\ scope["cs1"].log[1].env.fail = {"deployDoc PrometheusClusterRole"}
    /\ scope["cs1"].log[1].env.operator.ready
    /\ scope["cs1"].log[1].err = NoErr
    /\ "deployDoc Prometheus" \notin SeqRange(scope["cs1"].log[1].ran)
    /\ "isKubeStateMetricsReady" \notin SeqRange(scope["cs1"].log[1].ran)
    /\ IsProvisioned(scope["cs1"].ClusterSummary.Status.FeatureSummaries, FeaturePrometheus)

(* ------------------------------------------------------------------ *)
(* C33: prometheusHash of a configuration without content               *)
(* ------------------------------------------------------------------ *)

\* every lookup of a reference of refs answers NotFound
AllMissing(refs, apiErr) ==
    \A i \in 1..Len(refs) :
        /\ content[ObjectOf(refs[i])] = 0
        /\ ObjectOf(refs[i]) \notin apiErr

\* C33: prometheusHash of a declared PrometheusConfiguration whose
\* reference list is empty, or whose referenced ConfigMaps are all missing,
\* returns no error and the value it returns for a nil
\* PrometheusConfiguration, the digest of zero bytes: the hash does not
\* tell "configured without content" from "not configured".
C33_NoContentHashesAsNotConfigured ==
    \A c \in ClusterSummaries :
        (HashCalled(c) /\ scope[c].ClusterSummary.Spec.PrometheusConfiguration # Nil) =>
            LET call == scope[c].log[1]
                spec == scope[c].ClusterSummary.Spec
                refs == spec.PrometheusConfiguration[1].PolicyRefs
                none == [spec EXCEPT !.PrometheusConfiguration = Nil]
            IN  AllMissing(refs, call.apiErr) =>
                    /\ call.err = NoErr
                    /\ call.hash = prometheusHash(none, content, call.apiErr).hash
                    /\ call.hash = EmptyHash

\* two ConfigMaps are referenced and neither exists: the hash is the one of
\* a ClusterSummary that declares no prometheus configuration
C33_Witness ==
    /\ HashCalled("cs1")
    /\ scope["cs1"].ClusterSummary.Spec.PrometheusConfiguration
         = <<[PolicyRefs |-> <<Ref(CmObj1), Ref(CmObj2)>>]>>
    /\ content[CmObj1] = 0
    /\ content[CmObj2] = 0
    /\ scope["cs1"].log[1].apiErr = {}
    /\ scope["cs1"].log[1].err = NoErr
    /\ scope["cs1"].log[1].hash = EmptyHash

====
